---- MODULE Spec2Model ----
(***************************************************************************)
(* Model of the mobilesender front-end.                                    *)
(*                                                                         *)
(* SpecBroadcast: the BroadcastScreen component (its fetched lists, the    *)
(* selections the user makes, the eligibility evaluator canStartBroadcast) *)
(* together with the part of the AuthProvider session it reads (token,     *)
(* user).  SpecEligible and SpecTemplates: the same screen with richer     *)
(* lists.  SpecSession: the AuthProvider and the AuthScreen.  SpecStart:   *)
(* the start of a broadcast.  SpecContacts, SpecForms, SpecAdmin: the      *)
(* screens with a list and a form.                                         *)
(***************************************************************************)
EXTENDS Integers, Sequences, FiniteSets, TLC

(***************************************************************************)
(* Bounds of the model.                                                    *)
(***************************************************************************)
MaxAccounts == 1
MaxTemplates == 1
MaxContacts == 2

(***************************************************************************)
(* JavaScript values.  null and undefined are modelled by marker strings   *)
(* so that they stay comparable with the strings they stand next to.       *)
(***************************************************************************)
Null == "<null>"
Undefined == "<undefined>"

\* TruthyStr with the empty string taken for a value
TruthyStr_EmptyCounts(s) == s \notin {Undefined, Null}

\* JS truthiness of an optional string: undefined, null and '' are falsy.
TruthyStr(s) == s \notin {Undefined, Null, ""}

\* JS truthiness of a number: 0 is falsy.
TruthyNum(n) == n # 0

(***************************************************************************)
(* Data the backend can answer with.                                       *)
(***************************************************************************)
NoUser == [null |-> TRUE]

KnownPlans == {"free", "basic", "professional", "corporate"}

\* the plans the client knows, and two plan strings it does not
Plans == KnownPlans \cup {"trial", "Free"}

SentValues == {0, 9, 10, 20000}

Users == [subscription_plan : Plans,
          is_unlimited : BOOLEAN,
          messages_sent_this_month : SentValues]

MessengerTypes == {"telegram", "whatsapp", "viber"}

AccountId(i) == <<"a1", "a2", "a3", "a4">>[i]
TemplateId(i) == <<"t1", "t2", "t3", "t4">>[i]
ContactId(i) == <<"c1", "c2", "c3", "c4">>[i]

PhoneValues == {Undefined, "", "+79001234567"}
UsernameValues == {Undefined, "", "@ivan"}

\* the lists of length 0..n over S
SeqsUpTo(n, S) == UNION {[1..k -> S] : k \in 0..n}

AccountResponses ==
    {[i \in 1..Len(s) |-> [id |-> AccountId(i),
                           messenger_type |-> s[i].messenger_type,
                           is_active |-> s[i].is_active]] :
        s \in SeqsUpTo(MaxAccounts,
                       [messenger_type : MessengerTypes, is_active : BOOLEAN])}

TemplateResponses ==
    {[i \in 1..k |-> [id |-> TemplateId(i)]] : k \in 0..MaxTemplates}

ContactResponses ==
    {[i \in 1..Len(s) |-> [id |-> ContactId(i),
                           phone |-> s[i].phone,
                           telegram_username |-> s[i].telegram_username]] :
        s \in SeqsUpTo(MaxContacts,
                       [phone : PhoneValues, telegram_username : UsernameValues])}

\* contact lists in which every contact carries both identifiers
PlainContactResponses ==
    {c \in ContactResponses :
        \A i \in 1..Len(c) : c[i].phone = "+79001234567"
                              /\ c[i].telegram_username = "@ivan"}

\* the user of the sessions in which only the lists matter
SampleUser == [subscription_plan |-> "basic", is_unlimited |-> FALSE,
               messages_sent_this_month |-> 9]

(***************************************************************************)
(* Answers of the backend.  A request is answered 2xx ("ok"), answered     *)
(* non-2xx with a JSON body that carries a detail or none ("rejected"),    *)
(* answered non-2xx with a body that is no JSON ("unparsable"), or fetch   *)
(* throws ("threw").                                                       *)
(***************************************************************************)
Details == {"Incorrect email or password"}

Ok(op) == [op |-> op, status |-> "ok", detail |-> Undefined]

Failures(op) ==
    {[op |-> op, status |-> "rejected", detail |-> d] :
        d \in Details \cup {Undefined}}
    \cup {[op |-> op, status |-> st, detail |-> Undefined] :
            st \in {"unparsable", "threw"}}

\* the alert of the catch blocks of the list screens and forms
\* (ContactsScreen.tsx, lines 61 and 120)
AlertConnectivity == [title |-> "Error", message |-> "Connection problems"]

\* no answer consumed, no Alert.alert call
NoAnswer == [op |-> "none", status |-> "none", detail |-> Undefined]
NoAlert == <<>>

(***************************************************************************)
(* State.                                                                  *)
(***************************************************************************)
VARIABLES
    token,              \* AuthProvider: token
    user,               \* AuthProvider: user
    fetchState,         \* BroadcastScreen: position of the mount effect
    accounts,           \* BroadcastScreen: accounts
    templates,          \* BroadcastScreen: templates
    contacts,           \* BroadcastScreen: contacts
    selectedAccount,    \* BroadcastScreen: selectedAccount
    selectedTemplate,   \* BroadcastScreen: selectedTemplate
    templateMode,       \* BroadcastScreen: templateMode
    selectedTemplates,  \* BroadcastScreen: selectedTemplates
    toggleCount,        \* history: the handleTemplateSelection calls per id
    isAuthenticated,    \* AuthProvider: isAuthenticated
    storedToken,        \* AsyncStorage: the item 'auth_token'
    AuthProvider_loading,   \* AuthProvider: loading
    checkAuthPc,        \* AuthProvider: position of checkAuthState
    refreshCalls,       \* AuthProvider: refreshUser calls awaiting an answer
    currentView,        \* AuthScreen: currentView
    email,              \* AuthScreen: email
    username,           \* AuthScreen: username
    password,           \* AuthScreen: password
    AuthScreen_loading, \* AuthScreen: loading
    AuthScreen_pc,      \* AuthScreen: the handler awaiting an answer
    BroadcastScreen_loading,    \* BroadcastScreen: loading
    confirmShown,       \* BroadcastScreen: the confirmation dialog is up
    startTimers,        \* BroadcastScreen: pending timeouts of startBroadcast
    ContactsScreen_mounted,     \* ContactsScreen: the mount effect has run
    ContactsScreen_contacts,    \* ContactsScreen: contacts
    ContactsScreen_loading,     \* ContactsScreen: loading
    ContactsScreen_refreshing,  \* ContactsScreen: refreshing
    ContactsScreen_showModal,   \* ContactsScreen: showModal
    contactName,        \* ContactsScreen: contactName
    contactPhone,       \* ContactsScreen: contactPhone
    contactTelegram,    \* ContactsScreen: contactTelegram
    ContactsScreen_saving,      \* ContactsScreen: saving
    createContactPc,    \* ContactsScreen: position of handleCreateContact
    contactFetches,     \* ContactsScreen: fetchContacts calls awaiting an answer
    serverContacts,     \* backend: the number of contacts of the user
    TemplatesScreen_mounted,    \* TemplatesScreen: the mount effect has run
    TemplatesScreen_templates,  \* TemplatesScreen: templates
    TemplatesScreen_loading,    \* TemplatesScreen: loading
    TemplatesScreen_refreshing, \* TemplatesScreen: refreshing
    TemplatesScreen_showModal,  \* TemplatesScreen: showModal
    templateName,       \* TemplatesScreen: templateName
    templateContent,    \* TemplatesScreen: templateContent
    TemplatesScreen_saving,     \* TemplatesScreen: saving
    createTemplatePc,   \* TemplatesScreen: position of handleCreateTemplate
    templateFetches,    \* TemplatesScreen: fetchTemplates calls awaiting an answer
    serverTemplates,    \* backend: the number of templates of the user
    selectedMessenger,  \* AddAccountScreen: selectedMessenger
    accountName,        \* AddAccountScreen: accountName
    showWebView,        \* AddAccountScreen: showWebView
    webViewUrl,         \* AddAccountScreen: webViewUrl
    AddAccountScreen_loading,   \* AddAccountScreen: loading
    saveAccountPc,      \* AddAccountScreen: position of handleSaveAccount
    accountAddedShown,  \* AddAccountScreen: the success dialog is up
    adminEffectUser,    \* AdminScreen: the user the effect last ran for
    AdminScreen_users,  \* AdminScreen: users
    subscriptionPlans,  \* AdminScreen: subscriptionPlans
    AdminScreen_loading,        \* AdminScreen: loading
    AdminScreen_refreshing,     \* AdminScreen: refreshing
    showPricingModal,   \* AdminScreen: showPricingModal
    selectedPlan,       \* AdminScreen: selectedPlan
    newPrice,           \* AdminScreen: newPrice
    pricingPuts,        \* AdminScreen: PUT requests of handleUpdatePricing in flight
    adminFetches,       \* AdminScreen: fetchAdminData calls awaiting an answer
    serverPrice,        \* backend: the price of the plan
    scheduledBroadcasts,        \* ScheduledScreen: the list shown
    ScheduledScreen_loading,    \* ScheduledScreen: loading
    ScheduledScreen_refreshing, \* ScheduledScreen: refreshing
    cancelAsked,        \* ScheduledScreen: the id the cancel dialog asks about
    screen,             \* navigation: the screen with a form the user is on
    alerts,             \* the Alert.alert calls of the latest step
    answer              \* the backend answer the latest step consumed

authVars == <<token, user, isAuthenticated, storedToken>>
listVars == <<accounts, templates, contacts>>
selectionVars == <<selectedAccount, selectedTemplate, templateMode, selectedTemplates>>
historyVars == <<toggleCount>>
broadcastVars == <<fetchState, listVars, selectionVars>>
providerVars == <<AuthProvider_loading, checkAuthPc, refreshCalls>>
authScreenVars == <<currentView, email, username, password,
                    AuthScreen_loading, AuthScreen_pc>>
startVars == <<BroadcastScreen_loading, confirmShown, startTimers>>
stepVars == <<alerts, answer>>
contactFormVars == <<ContactsScreen_showModal, contactName, contactPhone,
                     contactTelegram>>
contactsScreenVars ==
    <<ContactsScreen_mounted, ContactsScreen_contacts, ContactsScreen_loading,
      ContactsScreen_refreshing, contactFormVars, ContactsScreen_saving,
      createContactPc, contactFetches, serverContacts>>
templateFormVars == <<TemplatesScreen_showModal, templateName, templateContent>>
templatesScreenVars ==
    <<TemplatesScreen_mounted, TemplatesScreen_templates,
      TemplatesScreen_loading, TemplatesScreen_refreshing, templateFormVars,
      TemplatesScreen_saving, createTemplatePc, templateFetches,
      serverTemplates>>
accountFormVars == <<selectedMessenger, accountName, showWebView, webViewUrl>>
addAccountVars ==
    <<accountFormVars, AddAccountScreen_loading, saveAccountPc,
      accountAddedShown>>
adminDataVars ==
    <<AdminScreen_users, subscriptionPlans, AdminScreen_loading,
      AdminScreen_refreshing, adminFetches>>
pricingFormVars == <<showPricingModal, selectedPlan, newPrice>>
adminScreenVars ==
    <<adminEffectUser, adminDataVars, pricingFormVars, pricingPuts,
      serverPrice>>
scheduledScreenVars ==
    <<scheduledBroadcasts, ScheduledScreen_loading,
      ScheduledScreen_refreshing, cancelAsked>>
formVars ==
    <<contactsScreenVars, templatesScreenVars, addAccountVars,
      adminScreenVars, scheduledScreenVars, screen>>

\* what the steps of one component leave as it is, next to the variables of
\* the component that each step lists itself
outsideSession == <<broadcastVars, startVars, historyVars, formVars>>
outsideBroadcast == <<providerVars, authScreenVars, startVars, formVars>>
outsideStart == <<providerVars, authScreenVars, historyVars, formVars>>
outsideForms == <<authVars, providerVars, authScreenVars, broadcastVars,
                  startVars, historyVars, screen>>
outsideContacts ==
    <<outsideForms, templatesScreenVars, addAccountVars, adminScreenVars,
      scheduledScreenVars>>
outsideTemplates ==
    <<outsideForms, contactsScreenVars, addAccountVars, adminScreenVars,
      scheduledScreenVars>>
outsideAddAccount ==
    <<outsideForms, contactsScreenVars, templatesScreenVars, adminScreenVars,
      scheduledScreenVars>>
outsideAdmin ==
    <<outsideForms, contactsScreenVars, templatesScreenVars, addAccountVars,
      scheduledScreenVars>>
outsideScheduled ==
    <<outsideForms, contactsScreenVars, templatesScreenVars, addAccountVars,
      adminScreenVars>>
vars == <<token, user, fetchState, accounts, templates, contacts,
          selectedAccount, selectedTemplate, templateMode, selectedTemplates,
          toggleCount, isAuthenticated, storedToken, AuthProvider_loading,
          checkAuthPc, refreshCalls, currentView, email, username, password,
          AuthScreen_loading, AuthScreen_pc, BroadcastScreen_loading,
          confirmShown, startTimers, formVars, alerts, answer>>

(***************************************************************************)
(* Array helpers.                                                          *)
(***************************************************************************)
\* Array.prototype.includes
Includes(s, x) == \E i \in 1..Len(s) : s[i] = x

\* what Array.prototype.find answers when no element matches (undefined, as
\* a record so that it compares with the records of the array)
NotFound == [undefined |-> TRUE]

\* accounts.find(acc => acc.id === id): the first account with the id
FindAccount(id) ==
    IF \E i \in 1..Len(accounts) : accounts[i].id = id
    THEN accounts[CHOOSE i \in 1..Len(accounts) :
                     /\ accounts[i].id = id
                     /\ \A j \in 1..(i - 1) : accounts[j].id # id]
    ELSE NotFound

(***************************************************************************)
(* BroadcastScreen: the eligibility evaluator.                             *)
(***************************************************************************)
\* reason strings of canStartBroadcast (the source's texts are Russian)
ReasonAccount == "Select an account and make sure there are matching contacts"
ReasonTemplate == "Select a message template"
ReasonTemplates == "Select at least one template"
ReasonLimitReached == "Message limit for the current month reached"
ReasonExceeds(available) ==
    "Broadcast will exceed the monthly limit. Available: "
        \o ToString(available) \o " messages"

\* getEligibleContacts testing the telegram_username for presence only
getEligibleContacts_PresenceOnly ==
    IF ~TruthyStr(selectedAccount) THEN <<>>
    ELSE LET account == FindAccount(selectedAccount)
         IN  IF account = NotFound THEN <<>>
             ELSE IF account.messenger_type = "telegram"
                  THEN SelectSeq(contacts,
                              LAMBDA contact : contact.telegram_username # Undefined)
             ELSE IF account.messenger_type = "whatsapp"
                  THEN SelectSeq(contacts, LAMBDA contact : TruthyStr(contact.phone))
             ELSE <<>>

getEligibleContacts ==
    IF ~TruthyStr(selectedAccount) THEN <<>>
    ELSE LET account == FindAccount(selectedAccount)
         IN  IF account = NotFound THEN <<>>
             ELSE IF account.messenger_type = "telegram"
                  THEN SelectSeq(contacts,
                              LAMBDA contact : TruthyStr(contact.telegram_username))
             ELSE IF account.messenger_type = "whatsapp"
                  THEN SelectSeq(contacts, LAMBDA contact : TruthyStr(contact.phone))
             ELSE <<>>

\* getMessageLimit with a digit lost in the professional row
getMessageLimit_LostDigit ==
    IF user = NoUser THEN 0
    ELSE CASE user.subscription_plan = "free" -> 10
           [] user.subscription_plan = "basic" -> 1000
           [] user.subscription_plan = "professional" -> 500
           [] user.subscription_plan = "corporate" -> 20000
           [] OTHER -> 0

getMessageLimit ==
    IF user = NoUser THEN 0
    ELSE CASE user.subscription_plan = "free" -> 10
           [] user.subscription_plan = "basic" -> 1000
           [] user.subscription_plan = "professional" -> 5000
           [] user.subscription_plan = "corporate" -> 20000
           [] OTHER -> 0

\* user?.is_unlimited
UserIsUnlimited == user # NoUser /\ user.is_unlimited

\* user?.messages_sent_this_month, undefined modelled as the falsy 0
UserMessagesSent == IF user = NoUser THEN 0 ELSE user.messages_sent_this_month

\* the quota step applied to unlimited users too
QuotaCheck_IgnoringUnlimited(eligibleCount) ==
    LET limit == getMessageLimit
    IN  IF TruthyNum(UserMessagesSent) /\ UserMessagesSent >= limit
        THEN ReasonLimitReached
        ELSE IF TruthyNum(UserMessagesSent)
                /\ (UserMessagesSent + eligibleCount) > limit
        THEN ReasonExceeds(limit - UserMessagesSent)
        ELSE ""

\* the quota step refusing a send that takes the count exactly to the limit
QuotaCheck_NoExactFit(eligibleCount) ==
    IF ~UserIsUnlimited
    THEN LET limit == getMessageLimit
         IN  IF TruthyNum(UserMessagesSent) /\ UserMessagesSent >= limit
             THEN ReasonLimitReached
             ELSE IF TruthyNum(UserMessagesSent)
                     /\ (UserMessagesSent + eligibleCount) >= limit
             THEN ReasonExceeds(limit - UserMessagesSent)
             ELSE ""
    ELSE ""

\* the quota step of canStartBroadcast: the reason it blocks with, or "" 
QuotaCheck(eligibleCount) ==
    IF ~UserIsUnlimited
    THEN LET limit == getMessageLimit
         IN  IF TruthyNum(UserMessagesSent) /\ UserMessagesSent >= limit
             THEN ReasonLimitReached
             ELSE IF TruthyNum(UserMessagesSent)
                     /\ (UserMessagesSent + eligibleCount) > limit
             THEN ReasonExceeds(limit - UserMessagesSent)
             ELSE ""
    ELSE ""

\* canStartBroadcast looking at the templates before the account
canStartBroadcast_TemplateFirst ==
    LET eligibleContacts == getEligibleContacts
    IN  IF templateMode = "single" /\ ~TruthyStr(selectedTemplate)
        THEN [canStart |-> FALSE, reason |-> ReasonTemplate]
        ELSE IF templateMode \in {"random", "alternate"}
                /\ Len(selectedTemplates) = 0
        THEN [canStart |-> FALSE, reason |-> ReasonTemplates]
        ELSE IF ~TruthyStr(selectedAccount) \/ Len(eligibleContacts) = 0
        THEN [canStart |-> FALSE, reason |-> ReasonAccount]
        ELSE IF QuotaCheck(Len(eligibleContacts)) # ""
        THEN [canStart |-> FALSE, reason |-> QuotaCheck(Len(eligibleContacts))]
        ELSE [canStart |-> TRUE, reason |-> ""]

\* canStartBroadcast letting the template list stand in for selectedTemplate
canStartBroadcast_ListForSingle ==
    LET eligibleContacts == getEligibleContacts
    IN  IF ~TruthyStr(selectedAccount) \/ Len(eligibleContacts) = 0
        THEN [canStart |-> FALSE, reason |-> ReasonAccount]
        ELSE IF ~TruthyStr(selectedTemplate) /\ Len(selectedTemplates) = 0
        THEN [canStart |-> FALSE, reason |-> ReasonTemplate]
        ELSE IF QuotaCheck(Len(eligibleContacts)) # ""
        THEN [canStart |-> FALSE, reason |-> QuotaCheck(Len(eligibleContacts))]
        ELSE [canStart |-> TRUE, reason |-> ""]

\* canStartBroadcast checking the template list in random mode only
canStartBroadcast_RandomOnly ==
    LET eligibleContacts == getEligibleContacts
    IN  IF ~TruthyStr(selectedAccount) \/ Len(eligibleContacts) = 0
        THEN [canStart |-> FALSE, reason |-> ReasonAccount]
        ELSE IF templateMode = "single" /\ ~TruthyStr(selectedTemplate)
        THEN [canStart |-> FALSE, reason |-> ReasonTemplate]
        ELSE IF templateMode = "random" /\ Len(selectedTemplates) = 0
        THEN [canStart |-> FALSE, reason |-> ReasonTemplates]
        ELSE IF QuotaCheck(Len(eligibleContacts)) # ""
        THEN [canStart |-> FALSE, reason |-> QuotaCheck(Len(eligibleContacts))]
        ELSE [canStart |-> TRUE, reason |-> ""]

canStartBroadcast ==
    LET eligibleContacts == getEligibleContacts
    IN  IF ~TruthyStr(selectedAccount) \/ Len(eligibleContacts) = 0
        THEN [canStart |-> FALSE, reason |-> ReasonAccount]
        ELSE IF templateMode = "single" /\ ~TruthyStr(selectedTemplate)
        THEN [canStart |-> FALSE, reason |-> ReasonTemplate]
        ELSE IF templateMode \in {"random", "alternate"}
                /\ Len(selectedTemplates) = 0
        THEN [canStart |-> FALSE, reason |-> ReasonTemplates]
        ELSE IF QuotaCheck(Len(eligibleContacts)) # ""
        THEN [canStart |-> FALSE, reason |-> QuotaCheck(Len(eligibleContacts))]
        ELSE [canStart |-> TRUE, reason |-> ""]

(***************************************************************************)
(* AuthProvider, as far as the BroadcastScreen reads it.                   *)
(***************************************************************************)
SessionToken == "token-1"

\* login answered 2xx: the token of the answer is stored and the session
\* adopts the token and the user of the answer
login(u) ==
    /\ storedToken' = SessionToken
    /\ token' = SessionToken
    /\ user' = u
    /\ isAuthenticated' = TRUE

logout ==
    /\ token # Null
    /\ storedToken' = Null
    /\ token' = Null
    /\ user' = NoUser
    /\ isAuthenticated' = FALSE
    /\ alerts' = NoAlert
    /\ answer' = NoAnswer
    /\ UNCHANGED <<providerVars, authScreenVars, outsideSession>>

(***************************************************************************)
(* BroadcastScreen: mount effect and fetchData.                            *)
(***************************************************************************)
\* the component mounts and its effect calls fetchData, which returns at
\* once without a token and otherwise issues the three requests
fetchData ==
    /\ fetchState = "unmounted"
    /\ fetchState' = IF ~TruthyStr(token) THEN "skipped" ELSE "pending"
    /\ alerts' = NoAlert
    /\ answer' = NoAnswer
    /\ UNCHANGED <<outsideBroadcast, historyVars>>
    /\ UNCHANGED <<authVars, listVars, selectionVars>>

\* fetchData keeping the inactive accounts of the answer
fetchDataOk_KeepInactive(accountsData, templatesData, contactsData) ==
    /\ fetchState = "pending"
    /\ accounts' = accountsData
    /\ templates' = templatesData
    /\ contacts' = contactsData
    /\ fetchState' = "done"
    /\ alerts' = NoAlert
    /\ answer' = NoAnswer
    /\ UNCHANGED <<outsideBroadcast, historyVars>>
    /\ UNCHANGED <<authVars, selectionVars>>

\* all three answers are 2xx
fetchDataOk(accountsData, templatesData, contactsData) ==
    /\ fetchState = "pending"
    /\ accounts' = SelectSeq(accountsData, LAMBDA acc : acc.is_active)
    /\ templates' = templatesData
    /\ contacts' = contactsData
    /\ fetchState' = "done"
    /\ alerts' = NoAlert
    /\ answer' = NoAnswer
    /\ UNCHANGED <<outsideBroadcast, historyVars>>
    /\ UNCHANGED <<authVars, selectionVars>>

\* the alert of the catch block of fetchData (BroadcastScreen.tsx, line 81)
AlertLoadFailed == [title |-> "Error", message |-> "Failed to load the data"]

\* some answer is not 2xx (nothing is shown), or a request throws (the
\* catch alerts): the lists stay as they are
fetchDataFailed ==
    /\ fetchState = "pending"
    /\ fetchState' = "done"
    /\ \E ans \in Failures("fetchData") :
          /\ answer' = ans
          /\ alerts' = IF ans.status = "threw"
                       THEN <<AlertLoadFailed>>
                       ELSE NoAlert
    /\ UNCHANGED <<outsideBroadcast, historyVars>>
    /\ UNCHANGED <<authVars, listVars, selectionVars>>

(***************************************************************************)
(* BroadcastScreen: the controls.                                          *)
(***************************************************************************)
Mounted == fetchState # "unmounted"

\* the controls take input while the screen is mounted and the confirmation
\* dialog of handleStartBroadcast, a modal Alert, is not up
ControlsUsable == Mounted /\ ~confirmShown

\* the account Picker offers '' and the id of every fetched account
setSelectedAccount(value) ==
    /\ ControlsUsable
    /\ value = "" \/ \E i \in 1..Len(accounts) : accounts[i].id = value
    /\ selectedAccount' = value
    /\ alerts' = NoAlert
    /\ answer' = NoAnswer
    /\ UNCHANGED <<outsideBroadcast, historyVars>>
    /\ UNCHANGED <<authVars, fetchState, listVars,
                   selectedTemplate, templateMode, selectedTemplates>>

\* the template Picker is rendered in single mode only
setSelectedTemplate(value) ==
    /\ ControlsUsable
    /\ templateMode = "single"
    /\ value = "" \/ \E i \in 1..Len(templates) : templates[i].id = value
    /\ selectedTemplate' = value
    /\ alerts' = NoAlert
    /\ answer' = NoAnswer
    /\ UNCHANGED <<outsideBroadcast, historyVars>>
    /\ UNCHANGED <<authVars, fetchState, listVars,
                   selectedAccount, templateMode, selectedTemplates>>

setTemplateMode(mode) ==
    /\ ControlsUsable
    /\ templateMode' = mode
    /\ alerts' = NoAlert
    /\ answer' = NoAnswer
    /\ UNCHANGED <<outsideBroadcast, historyVars>>
    /\ UNCHANGED <<authVars, fetchState, listVars,
                   selectedAccount, selectedTemplate, selectedTemplates>>

\* the toggle appending an id that is in the list already
ToggleSelection_AlwaysAppend(list, templateId) == list \o <<templateId>>

\* the list handleTemplateSelection stores: the id filtered out if the list
\* includes it, appended otherwise
ToggleSelection(list, templateId) ==
    IF Includes(list, templateId)
    THEN SelectSeq(list, LAMBDA id : id # templateId)
    ELSE list \o <<templateId>>

\* the template check list is rendered in random and alternate mode only
handleTemplateSelection(templateId) ==
    /\ ControlsUsable
    /\ templateMode # "single"
    /\ \E i \in 1..Len(templates) : templates[i].id = templateId
    /\ selectedTemplates' = ToggleSelection(selectedTemplates, templateId)
    /\ alerts' = NoAlert
    /\ answer' = NoAnswer
    /\ UNCHANGED outsideBroadcast
    /\ UNCHANGED <<authVars, fetchState, listVars,
                   selectedAccount, selectedTemplate, templateMode>>

(***************************************************************************)
(* Specification of the BroadcastScreen.                                   *)
(***************************************************************************)
TemplateModes == {"single", "random", "alternate"}

InitBroadcast ==
    /\ token = Null
    /\ user = NoUser
    /\ fetchState = "unmounted"
    /\ accounts = <<>>
    /\ templates = <<>>
    /\ contacts = <<>>
    /\ selectedAccount = ""
    /\ selectedTemplate = ""
    /\ templateMode = "single"
    /\ selectedTemplates = <<>>

TemplateIds == {TemplateId(i) : i \in 1..(MaxTemplates + 1)}

InitHistory == toggleCount = [id \in TemplateIds |-> 0]

\* the AuthProvider and the AuthScreen after construction, nothing stored
InitAuth ==
    /\ isAuthenticated = FALSE
    /\ storedToken = Null
    /\ AuthProvider_loading = TRUE
    /\ checkAuthPc = "start"
    /\ refreshCalls = 0
    /\ currentView = "login"
    /\ email = <<>>
    /\ username = <<>>
    /\ password = <<>>
    /\ AuthScreen_loading = FALSE
    /\ AuthScreen_pc = "idle"
    /\ alerts = NoAlert
    /\ answer = NoAnswer

InitStart ==
    /\ BroadcastScreen_loading = FALSE
    /\ confirmShown = FALSE
    /\ startTimers = 0

\* the texts typed into the forms of the list screens: empty, blank, filled
FieldTexts == {<<>>, <<" ">>, <<"a">>}

\* no fetchContacts call of this origin awaits an answer
NotInFlight == -1

\* fetchContacts is called by the mount effect, by ContactsScreen_onRefresh and by
\* handleCreateContact
FetchOrigins == {"mount", "refresh", "create"}

\* the ContactsScreen after construction, the backend without contacts
InitContactsScreen ==
    /\ ContactsScreen_mounted = FALSE
    /\ ContactsScreen_contacts = <<>>
    /\ ContactsScreen_loading = TRUE
    /\ ContactsScreen_refreshing = FALSE
    /\ ContactsScreen_showModal = FALSE
    /\ contactName = <<>>
    /\ contactPhone = <<>>
    /\ contactTelegram = <<>>
    /\ ContactsScreen_saving = FALSE
    /\ createContactPc = "idle"
    /\ contactFetches = [o \in FetchOrigins |-> NotInFlight]
    /\ serverContacts = 0

\* the TemplatesScreen after construction, the backend without templates
InitTemplatesScreen ==
    /\ TemplatesScreen_mounted = FALSE
    /\ TemplatesScreen_templates = <<>>
    /\ TemplatesScreen_loading = TRUE
    /\ TemplatesScreen_refreshing = FALSE
    /\ TemplatesScreen_showModal = FALSE
    /\ templateName = <<>>
    /\ templateContent = <<>>
    /\ TemplatesScreen_saving = FALSE
    /\ createTemplatePc = "idle"
    /\ templateFetches = [o \in FetchOrigins |-> NotInFlight]
    /\ serverTemplates = 0

\* the AddAccountScreen after construction
InitAddAccountScreen ==
    /\ selectedMessenger = Null
    /\ accountName = <<>>
    /\ showWebView = FALSE
    /\ webViewUrl = ""
    /\ AddAccountScreen_loading = FALSE
    /\ saveAccountPc = "idle"
    /\ accountAddedShown = FALSE

\* the keys of the subscription plans of the backend
PlanKeys == {"basic"}

\* subscriptionPlans before the first answer: {}
NoPlans == [k \in {} |-> 0]

\* the price the backend starts with
InitialPrice == 1

\* the effect of the AdminScreen has not run
NotMounted == [unmounted |-> TRUE]

\* fetchAdminData is called by the effect, by ContactsScreen_onRefresh and by the three
\* update handlers, of which the model has handleUpdatePricing
AdminOrigins == {"effect", "refresh", "update"}

\* the AdminScreen after construction
InitAdminScreen ==
    /\ adminEffectUser = NotMounted
    /\ AdminScreen_users = <<>>
    /\ subscriptionPlans = NoPlans
    /\ AdminScreen_loading = TRUE
    /\ AdminScreen_refreshing = FALSE
    /\ showPricingModal = FALSE
    /\ selectedPlan = ""
    /\ newPrice = <<>>
    /\ pricingPuts = <<>>
    /\ adminFetches = [o \in AdminOrigins |-> NotInFlight]
    /\ serverPrice = InitialPrice

\* the ScheduledScreen after construction (ScheduledScreen.tsx:27-29); no
\* cancel dialog is up
InitScheduledScreen ==
    /\ scheduledBroadcasts = <<>>
    /\ ScheduledScreen_loading = TRUE
    /\ ScheduledScreen_refreshing = FALSE
    /\ cancelAsked = ""

InitForms ==
    /\ InitContactsScreen
    /\ InitTemplatesScreen
    /\ InitAddAccountScreen
    /\ InitAdminScreen
    /\ InitScheduledScreen

\* the BroadcastScreen after construction, the rest of the app at rest
InitScreen ==
    /\ InitBroadcast /\ InitHistory /\ InitAuth /\ InitStart /\ InitForms
    /\ screen = "BroadcastScreen"

\* handleLogin of an anonymous session and the 2xx answer to it, taken as
\* one step by the specifications that follow the screens behind the
\* AuthScreen; the answer is not recorded
loginAnswered(u) ==
    /\ screen # "AuthScreen"
    /\ token = Null
    /\ login(u)
    /\ alerts' = NoAlert
    /\ answer' = NoAnswer
    /\ UNCHANGED <<providerVars, authScreenVars, outsideSession>>

\* refreshUser has no caller among the screens.
NextBroadcast ==
    \/ \E u \in Users : loginAnswered(u)
    \/ logout
    \/ fetchData
    \/ /\ fetchState = "pending"
       /\ \E a \in AccountResponses, t \in TemplateResponses,
             c \in PlainContactResponses : fetchDataOk(a, t, c)
    \/ fetchDataFailed
    \/ \E value \in {""} \cup {AccountId(i) : i \in 1..MaxAccounts} :
          setSelectedAccount(value)
    \/ \E value \in {""} \cup {TemplateId(i) : i \in 1..MaxTemplates} :
          setSelectedTemplate(value)
    \/ \E mode \in TemplateModes : setTemplateMode(mode)
    \/ \E i \in 1..MaxTemplates :
          handleTemplateSelection(TemplateId(i)) /\ UNCHANGED historyVars

SpecBroadcast == InitScreen /\ [][NextBroadcast]_vars

(***************************************************************************)
(* Specification of the recipient selection of the BroadcastScreen: every  *)
(* shape of contact and account list, one user, the template controls left *)
(* alone.                                                                  *)
(***************************************************************************)
NextEligible ==
    \/ loginAnswered(SampleUser)
    \/ logout
    \/ fetchData
    \/ /\ fetchState = "pending"
       /\ \E a \in AccountResponses, c \in ContactResponses :
             fetchDataOk(a, <<>>, c)
    \/ fetchDataFailed
    \/ \E value \in {""} \cup {AccountId(i) : i \in 1..MaxAccounts} :
          setSelectedAccount(value)

SpecEligible == InitScreen /\ [][NextEligible]_vars

(***************************************************************************)
(* Specification of the template controls of the BroadcastScreen: template *)
(* lists one longer than elsewhere, one user, no account or contact, and   *)
(* the number of handleTemplateSelection calls per id recorded.            *)
(***************************************************************************)
MaxToggles == 3

TemplateLists ==
    {[i \in 1..k |-> [id |-> TemplateId(i)]] : k \in 0..(MaxTemplates + 1)}

NextTemplates ==
    \/ loginAnswered(SampleUser)
    \/ fetchData
    \/ /\ fetchState = "pending"
       /\ \E t \in TemplateLists : fetchDataOk(<<>>, t, <<>>)
    \/ fetchDataFailed
    \/ \E value \in {""} \cup TemplateIds : setSelectedTemplate(value)
    \/ \E mode \in TemplateModes : setTemplateMode(mode)
    \/ \E id \in TemplateIds :
          /\ toggleCount[id] < MaxToggles
          /\ handleTemplateSelection(id)
          /\ toggleCount' = [toggleCount EXCEPT ![id] = @ + 1]

SpecTemplates == InitScreen /\ [][NextTemplates]_vars

(***************************************************************************)
(* Texts typed into the forms: sequences of one-character strings, so that *)
(* trim and parseInt are computed on the characters.                       *)
(***************************************************************************)
MaxText == 1

Chars == {" ", "a"}

Texts == SeqsUpTo(MaxText, Chars)

\* JS truthiness of a string: '' is falsy
TruthyText(t) == t # <<>>

RECURSIVE TrimStart(_)
TrimStart(t) ==
    IF t # <<>> /\ Head(t) = " " THEN TrimStart(Tail(t)) ELSE t

RECURSIVE TrimEnd(_)
TrimEnd(t) ==
    IF t # <<>> /\ t[Len(t)] = " "
    THEN TrimEnd(SubSeq(t, 1, Len(t) - 1))
    ELSE t

\* String.prototype.trim
Trim(t) == TrimEnd(TrimStart(t))

\* the users the backend answers /api/auth/login and /api/auth/me with
AuthUsers ==
    {SampleUser, [SampleUser EXCEPT !.messages_sent_this_month = 10]}

(***************************************************************************)
(* AuthProvider: checkAuthState, refreshUser.                              *)
(***************************************************************************)
MaxRefresh == 1

\* the mount effect: the stored token is read and, if there is one,
\* /api/auth/me is requested with it
checkAuthState ==
    /\ checkAuthPc = "start"
    /\ IF TruthyStr(storedToken)
       THEN /\ checkAuthPc' = "requested"
            /\ UNCHANGED AuthProvider_loading
       ELSE /\ checkAuthPc' = "done"
            /\ AuthProvider_loading' = FALSE
    /\ alerts' = NoAlert
    /\ answer' = NoAnswer
    /\ UNCHANGED outsideSession
    /\ UNCHANGED <<authVars, refreshCalls, authScreenVars>>

\* /api/auth/me answered 2xx: the session adopts the user of the answer and
\* the token that was read (the one token value there is)
checkAuthStateOk(u) ==
    /\ checkAuthPc = "requested"
    /\ user' = u
    /\ token' = SessionToken
    /\ isAuthenticated' = TRUE
    /\ AuthProvider_loading' = FALSE
    /\ checkAuthPc' = "done"
    /\ alerts' = NoAlert
    /\ answer' = Ok("checkAuthState")
    /\ UNCHANGED outsideSession
    /\ UNCHANGED <<storedToken, refreshCalls, authScreenVars>>

\* checkAuthState with setLoading(false) at the end of the try block, which
\* a throw skips
checkAuthStateFailed_ThrowKeepsLoading(ans) ==
    /\ checkAuthPc = "requested"
    /\ storedToken' = IF ans.status = "threw" THEN storedToken ELSE Null
    /\ AuthProvider_loading' =
          IF ans.status = "threw" THEN AuthProvider_loading ELSE FALSE
    /\ checkAuthPc' = "done"
    /\ alerts' = NoAlert
    /\ answer' = ans
    /\ UNCHANGED outsideSession
    /\ UNCHANGED <<token, user, isAuthenticated, refreshCalls, authScreenVars>>

\* /api/auth/me answered non-2xx: the stored token is removed; fetch threw:
\* the error is logged
checkAuthStateFailed(ans) ==
    /\ checkAuthPc = "requested"
    /\ storedToken' = IF ans.status = "threw" THEN storedToken ELSE Null
    /\ AuthProvider_loading' = FALSE
    /\ checkAuthPc' = "done"
    /\ alerts' = NoAlert
    /\ answer' = ans
    /\ UNCHANGED outsideSession
    /\ UNCHANGED <<token, user, isAuthenticated, refreshCalls, authScreenVars>>

\* refreshUser requests /api/auth/me if there is a token
refreshUser ==
    /\ TruthyStr(token)
    /\ refreshCalls < MaxRefresh
    /\ refreshCalls' = refreshCalls + 1
    /\ alerts' = NoAlert
    /\ answer' = NoAnswer
    /\ UNCHANGED outsideSession
    /\ UNCHANGED <<authVars, AuthProvider_loading, checkAuthPc, authScreenVars>>

refreshUserOk(u) ==
    /\ refreshCalls > 0
    /\ refreshCalls' = refreshCalls - 1
    /\ user' = u
    /\ alerts' = NoAlert
    /\ answer' = Ok("refreshUser")
    /\ UNCHANGED outsideSession
    /\ UNCHANGED <<token, isAuthenticated, storedToken, AuthProvider_loading,
                   checkAuthPc, authScreenVars>>

\* non-2xx is ignored, a throw is logged
refreshUserFailed(ans) ==
    /\ refreshCalls > 0
    /\ refreshCalls' = refreshCalls - 1
    /\ alerts' = NoAlert
    /\ answer' = ans
    /\ UNCHANGED outsideSession
    /\ UNCHANGED <<authVars, AuthProvider_loading, checkAuthPc, authScreenVars>>

(***************************************************************************)
(* AuthScreen.                                                             *)
(***************************************************************************)
\* the alerts of AuthScreen.tsx (lines 27, 36, 51, 56)
AlertFillAllFields == [title |-> "Error", message |-> "Fill in all fields"]
AlertLoginFailed ==
    [title |-> "Login error", message |-> "Invalid credentials"]
AlertRegistered ==
    [title |-> "Success", message |-> "Account created! Now sign in."]
AlertRegisterFailed ==
    [title |-> "Registration error",
     message |-> "Error while creating the account"]

\* the inputs are editable while loading is false
setEmail(text) ==
    /\ screen = "AuthScreen"
    /\ ~AuthScreen_loading
    /\ email' = text
    /\ alerts' = NoAlert
    /\ answer' = NoAnswer
    /\ UNCHANGED outsideSession
    /\ UNCHANGED <<authVars, providerVars, currentView, username, password,
                   AuthScreen_loading, AuthScreen_pc>>

\* the username input is rendered in the register view only
setUsername(text) ==
    /\ screen = "AuthScreen"
    /\ ~AuthScreen_loading
    /\ currentView = "register"
    /\ username' = text
    /\ alerts' = NoAlert
    /\ answer' = NoAnswer
    /\ UNCHANGED outsideSession
    /\ UNCHANGED <<authVars, providerVars, currentView, email, password,
                   AuthScreen_loading, AuthScreen_pc>>

setPassword(text) ==
    /\ screen = "AuthScreen"
    /\ ~AuthScreen_loading
    /\ password' = text
    /\ alerts' = NoAlert
    /\ answer' = NoAnswer
    /\ UNCHANGED outsideSession
    /\ UNCHANGED <<authVars, providerVars, currentView, email, username,
                   AuthScreen_loading, AuthScreen_pc>>

\* the secondary button switches between the login and the register view
switchView ==
    /\ screen = "AuthScreen"
    /\ ~AuthScreen_loading
    /\ currentView' = IF currentView = "login" THEN "register" ELSE "login"
    /\ password' = <<>>
    /\ username' = IF currentView = "register" THEN <<>> ELSE username
    /\ alerts' = NoAlert
    /\ answer' = NoAnswer
    /\ UNCHANGED outsideSession
    /\ UNCHANGED <<authVars, providerVars, email,
                   AuthScreen_loading, AuthScreen_pc>>

\* the primary button in the login view, up to the await of login()
handleLogin ==
    /\ screen = "AuthScreen"
    /\ ~AuthScreen_loading
    /\ currentView = "login"
    /\ IF ~TruthyText(email) \/ ~TruthyText(password)
       THEN /\ alerts' = <<AlertFillAllFields>>
            /\ UNCHANGED <<AuthScreen_loading, AuthScreen_pc>>
       ELSE /\ AuthScreen_loading' = TRUE
            /\ AuthScreen_pc' = "login"
            /\ alerts' = NoAlert
    /\ answer' = NoAnswer
    /\ UNCHANGED outsideSession
    /\ UNCHANGED <<authVars, providerVars, currentView, email, username,
                   password>>

\* login() resolves true
handleLoginOk(u) ==
    /\ AuthScreen_pc = "login"
    /\ login(u)
    /\ AuthScreen_loading' = FALSE
    /\ AuthScreen_pc' = "idle"
    /\ alerts' = NoAlert
    /\ answer' = Ok("login")
    /\ UNCHANGED outsideSession
    /\ UNCHANGED <<providerVars, currentView, email, username, password>>

\* a failed login that removes the persisted token, as a rejected startup
\* check does
handleLoginFailed_RemovesToken(ans) ==
    /\ AuthScreen_pc = "login"
    /\ AuthScreen_loading' = FALSE
    /\ AuthScreen_pc' = "idle"
    /\ storedToken' = Null
    /\ alerts' = <<AlertLoginFailed>>
    /\ answer' = ans
    /\ UNCHANGED outsideSession
    /\ UNCHANGED <<token, user, isAuthenticated, providerVars, currentView,
                   email, username, password>>

\* login() resolves false: the answer is non-2xx and login throws an Error
\* with its detail, or reading the body or fetch throws; login catches and
\* logs whichever it is
handleLoginFailed(ans) ==
    /\ AuthScreen_pc = "login"
    /\ AuthScreen_loading' = FALSE
    /\ AuthScreen_pc' = "idle"
    /\ alerts' = <<AlertLoginFailed>>
    /\ answer' = ans
    /\ UNCHANGED outsideSession
    /\ UNCHANGED <<authVars, providerVars, currentView, email, username,
                   password>>

\* the primary button in the register view, up to the await of register()
handleRegister ==
    /\ screen = "AuthScreen"
    /\ ~AuthScreen_loading
    /\ currentView = "register"
    /\ IF ~TruthyText(email) \/ ~TruthyText(username) \/ ~TruthyText(password)
       THEN /\ alerts' = <<AlertFillAllFields>>
            /\ UNCHANGED <<AuthScreen_loading, AuthScreen_pc>>
       ELSE /\ AuthScreen_loading' = TRUE
            /\ AuthScreen_pc' = "register"
            /\ alerts' = NoAlert
    /\ answer' = NoAnswer
    /\ UNCHANGED outsideSession
    /\ UNCHANGED <<authVars, providerVars, currentView, email, username,
                   password>>

\* register() resolves true
handleRegisterOk ==
    /\ AuthScreen_pc = "register"
    /\ AuthScreen_loading' = FALSE
    /\ AuthScreen_pc' = "idle"
    /\ alerts' = <<AlertRegistered>>
    /\ currentView' = "login"
    /\ username' = <<>>
    /\ password' = <<>>
    /\ answer' = Ok("register")
    /\ UNCHANGED outsideSession
    /\ UNCHANGED <<authVars, providerVars, email>>

\* register() resolves false
handleRegisterFailed(ans) ==
    /\ AuthScreen_pc = "register"
    /\ AuthScreen_loading' = FALSE
    /\ AuthScreen_pc' = "idle"
    /\ alerts' = <<AlertRegisterFailed>>
    /\ answer' = ans
    /\ UNCHANGED outsideSession
    /\ UNCHANGED <<authVars, providerVars, currentView, email, username,
                   password>>

(***************************************************************************)
(* Specification of the session: AuthProvider and AuthScreen, the          *)
(* BroadcastScreen left unmounted.  A token of an earlier run may be       *)
(* stored.                                                                 *)
(***************************************************************************)
InitSession ==
    /\ token = Null
    /\ user = NoUser
    /\ isAuthenticated = FALSE
    /\ storedToken \in {Null, SessionToken}
    /\ AuthProvider_loading = TRUE
    /\ checkAuthPc = "start"
    /\ refreshCalls = 0
    /\ currentView = "login"
    /\ email = <<>>
    /\ username = <<>>
    /\ password = <<>>
    /\ AuthScreen_loading = FALSE
    /\ AuthScreen_pc = "idle"
    /\ alerts = NoAlert
    /\ answer = NoAnswer

InitScreensIdle ==
    /\ fetchState = "unmounted"
    /\ accounts = <<>>
    /\ templates = <<>>
    /\ contacts = <<>>
    /\ selectedAccount = ""
    /\ selectedTemplate = ""
    /\ templateMode = "single"
    /\ selectedTemplates = <<>>

\* the app after construction, before any effect has run
InitApp ==
    /\ InitSession /\ InitScreensIdle /\ InitHistory /\ InitStart /\ InitForms
    /\ screen = "AuthScreen"

NextSession ==
    \/ checkAuthState
    \/ \E u \in AuthUsers : checkAuthStateOk(u)
    \/ \E ans \in Failures("checkAuthState") : checkAuthStateFailed(ans)
    \/ refreshUser
    \/ \E u \in AuthUsers : refreshUserOk(u)
    \/ \E ans \in Failures("refreshUser") : refreshUserFailed(ans)
    \/ logout
    \/ \E text \in Texts : setEmail(text)
    \/ \E text \in Texts : setUsername(text)
    \/ \E text \in Texts : setPassword(text)
    \/ switchView
    \/ handleLogin
    \/ \E u \in AuthUsers : handleLoginOk(u)
    \/ \E ans \in Failures("login") : handleLoginFailed(ans)
    \/ handleRegister
    \/ handleRegisterOk
    \/ \E ans \in Failures("register") : handleRegisterFailed(ans)

SpecSession == InitApp /\ [][NextSession]_vars

(***************************************************************************)
(* BroadcastScreen: starting a broadcast.                                  *)
(***************************************************************************)
\* the alerts of BroadcastScreen.tsx (lines 150, 157, 173)
AlertCannotStart(reason) ==
    [title |-> "Cannot start the broadcast", message |-> reason]
AlertConfirmStart == [title |-> "Confirm the broadcast", message |-> "Continue?"]
AlertStarted ==
    [title |-> "Success", message |-> "Broadcast started! Follow it in Logs"]

\* handleStartBroadcast asking for the confirmation whatever canStart is,
\* behind a button that is disabled only while loading
handleStartBroadcast_AlwaysAsks ==
    /\ Mounted
    /\ ~BroadcastScreen_loading
    /\ ~confirmShown
    /\ alerts' = <<AlertConfirmStart>>
    /\ confirmShown' = TRUE
    /\ answer' = NoAnswer
    /\ UNCHANGED outsideStart
    /\ UNCHANGED <<authVars, broadcastVars, BroadcastScreen_loading,
                   startTimers>>

\* the start button is enabled while canStart holds and loading is false,
\* and the confirmation dialog covers it while it is up
handleStartBroadcast ==
    /\ Mounted
    /\ canStartBroadcast.canStart
    /\ ~BroadcastScreen_loading
    /\ ~confirmShown
    /\ IF ~canStartBroadcast.canStart
       THEN /\ alerts' = <<AlertCannotStart(canStartBroadcast.reason)>>
            /\ UNCHANGED confirmShown
       ELSE /\ alerts' = <<AlertConfirmStart>>
            /\ confirmShown' = TRUE
    /\ answer' = NoAnswer
    /\ UNCHANGED outsideStart
    /\ UNCHANGED <<authVars, broadcastVars, BroadcastScreen_loading,
                   startTimers>>

\* the cancel button of the dialog
cancelStart ==
    /\ confirmShown
    /\ confirmShown' = FALSE
    /\ alerts' = NoAlert
    /\ answer' = NoAnswer
    /\ UNCHANGED outsideStart
    /\ UNCHANGED <<authVars, broadcastVars, BroadcastScreen_loading,
                   startTimers>>

\* startBroadcast incrementing the cached count by the messages it sends
startBroadcast_CountsSent ==
    /\ confirmShown
    /\ confirmShown' = FALSE
    /\ BroadcastScreen_loading' = TRUE
    /\ startTimers' = startTimers + 1
    /\ user' = IF user = NoUser THEN user
               ELSE [user EXCEPT !.messages_sent_this_month =
                                    @ + Len(getEligibleContacts)]
    /\ alerts' = NoAlert
    /\ answer' = NoAnswer
    /\ UNCHANGED outsideStart
    /\ UNCHANGED <<token, isAuthenticated, storedToken, broadcastVars>>

\* the start button of the dialog calls startBroadcast: loading is set and
\* a timeout of 2 s is armed; no request is made
startBroadcast ==
    /\ confirmShown
    /\ confirmShown' = FALSE
    /\ BroadcastScreen_loading' = TRUE
    /\ startTimers' = startTimers + 1
    /\ alerts' = NoAlert
    /\ answer' = NoAnswer
    /\ UNCHANGED outsideStart
    /\ UNCHANGED <<authVars, broadcastVars>>

\* the timeout of startBroadcast fires
startBroadcastTimeout ==
    /\ startTimers > 0
    /\ startTimers' = startTimers - 1
    /\ BroadcastScreen_loading' = FALSE
    /\ alerts' = <<AlertStarted>>
    /\ answer' = NoAnswer
    /\ UNCHANGED outsideStart
    /\ UNCHANGED <<authVars, broadcastVars, confirmShown>>

(***************************************************************************)
(* Specification of a session with the BroadcastScreen: the AuthProvider,  *)
(* the login view of the AuthScreen with one text to type, and the         *)
(* BroadcastScreen with one account and one template to fetch.             *)
(***************************************************************************)
OneAccount ==
    <<[id |-> AccountId(1), messenger_type |-> "telegram", is_active |-> TRUE]>>

OneTemplate == <<[id |-> TemplateId(1)]>>

NextStart ==
    \/ checkAuthState
    \/ \E u \in AuthUsers : checkAuthStateOk(u)
    \/ \E ans \in Failures("checkAuthState") : checkAuthStateFailed(ans)
    \/ refreshUser
    \/ \E u \in AuthUsers : refreshUserOk(u)
    \/ \E ans \in Failures("refreshUser") : refreshUserFailed(ans)
    \/ logout
    \/ setEmail(<<"a">>)
    \/ setPassword(<<"a">>)
    \/ handleLogin
    \/ \E u \in AuthUsers : handleLoginOk(u)
    \/ \E ans \in Failures("login") : handleLoginFailed(ans)
    \/ fetchData
    \/ /\ fetchState = "pending"
       /\ \E c \in PlainContactResponses :
             fetchDataOk(OneAccount, OneTemplate, c)
    \/ fetchDataFailed
    \/ \E value \in {"", AccountId(1)} : setSelectedAccount(value)
    \/ \E value \in {"", TemplateId(1)} : setSelectedTemplate(value)
    \/ handleStartBroadcast
    \/ cancelStart
    \/ startBroadcast
    \/ startBroadcastTimeout

SpecStart == InitApp /\ [][NextStart]_vars

(***************************************************************************)
(* ContactsScreen.  The backend is taken to serve a GET /api/contacts when *)
(* it is issued, with the contacts it has then; the answer arrives later,  *)
(* in any order with other answers.                                        *)
(***************************************************************************)
MaxServerContacts == 1

\* the alerts of ContactsScreen.tsx (lines 57, 74, 79, 113) and the text that
\* stands in for a missing detail (116); the source's texts are Russian
AlertContactsLoadFailed ==
    [title |-> "Error", message |-> "Failed to load the contacts"]
AlertEnterContactName ==
    [title |-> "Error", message |-> "Enter the contact name"]
AlertEnterPhoneOrTelegram ==
    [title |-> "Error",
     message |-> "Enter a phone number or a Telegram username"]
AlertContactAdded == [title |-> "Success", message |-> "Contact added"]
ContactNotAdded == "Failed to add the contact"

\* the list the backend answers with when it has n contacts
ContactList(n) == [i \in 1..n |-> ContactId(i)]

\* fetchContacts up to its await: nothing without a token, a request
\* otherwise
FetchContactsCalled(origin) ==
    IF TruthyStr(token)
    THEN [contactFetches EXCEPT ![origin] = serverContacts]
    ELSE contactFetches

\* the alerts of fetchContacts for an answer that is not 2xx, or a throw
FetchContactsAlerts(ans) ==
    IF ans.status = "threw"
    THEN <<AlertConnectivity>>
    ELSE <<AlertContactsLoadFailed>>

\* the mount effect calls fetchContacts
ContactsScreen_mount ==
    /\ screen = "ContactsScreen"
    /\ ~ContactsScreen_mounted
    /\ ContactsScreen_mounted' = TRUE
    /\ contactFetches' = FetchContactsCalled("mount")
    /\ alerts' = NoAlert
    /\ answer' = NoAnswer
    /\ UNCHANGED <<ContactsScreen_contacts, ContactsScreen_loading,
                   ContactsScreen_refreshing, contactFormVars,
                   ContactsScreen_saving, createContactPc, serverContacts>>
    /\ UNCHANGED outsideContacts

\* pull-to-refresh, which the control offers while refreshing is false
ContactsScreen_onRefresh ==
    /\ screen = "ContactsScreen"
    /\ ContactsScreen_mounted
    /\ ~ContactsScreen_refreshing
    /\ contactFetches' = FetchContactsCalled("refresh")
    /\ ContactsScreen_refreshing' = TruthyStr(token)
    /\ alerts' = NoAlert
    /\ answer' = NoAnswer
    /\ UNCHANGED <<ContactsScreen_mounted, ContactsScreen_contacts,
                   ContactsScreen_loading, contactFormVars,
                   ContactsScreen_saving, createContactPc, serverContacts>>
    /\ UNCHANGED outsideContacts

\* fetchContacts answered 2xx, and what its caller does after the await
fetchContactsOk(origin) ==
    /\ contactFetches[origin] # NotInFlight
    /\ ContactsScreen_contacts' = ContactList(contactFetches[origin])
    /\ ContactsScreen_loading' = FALSE
    /\ contactFetches' = [contactFetches EXCEPT ![origin] = NotInFlight]
    /\ ContactsScreen_refreshing' =
          IF origin = "refresh" THEN FALSE ELSE ContactsScreen_refreshing
    /\ ContactsScreen_saving' =
          IF origin = "create" THEN FALSE ELSE ContactsScreen_saving
    /\ alerts' = IF origin = "create" THEN <<AlertContactAdded>> ELSE NoAlert
    /\ answer' = Ok("fetchContacts")
    /\ UNCHANGED <<ContactsScreen_mounted, contactFormVars, createContactPc,
                   serverContacts>>
    /\ UNCHANGED outsideContacts

\* fetchContacts answered non-2xx, or fetch threw
fetchContactsFailed(origin, ans) ==
    /\ contactFetches[origin] # NotInFlight
    /\ ContactsScreen_loading' = FALSE
    /\ contactFetches' = [contactFetches EXCEPT ![origin] = NotInFlight]
    /\ ContactsScreen_refreshing' =
          IF origin = "refresh" THEN FALSE ELSE ContactsScreen_refreshing
    /\ ContactsScreen_saving' =
          IF origin = "create" THEN FALSE ELSE ContactsScreen_saving
    /\ alerts' = IF origin = "create"
                 THEN FetchContactsAlerts(ans) \o <<AlertContactAdded>>
                 ELSE FetchContactsAlerts(ans)
    /\ answer' = ans
    /\ UNCHANGED <<ContactsScreen_mounted, ContactsScreen_contacts,
                   contactFormVars, createContactPc, serverContacts>>
    /\ UNCHANGED outsideContacts

\* the add buttons of the header and of the empty list
openContactModal ==
    /\ screen = "ContactsScreen"
    /\ ContactsScreen_mounted
    /\ ~ContactsScreen_showModal
    /\ ContactsScreen_showModal' = TRUE
    /\ alerts' = NoAlert
    /\ answer' = NoAnswer
    /\ UNCHANGED <<ContactsScreen_mounted, ContactsScreen_contacts,
                   ContactsScreen_loading, ContactsScreen_refreshing,
                   contactName, contactPhone, contactTelegram,
                   ContactsScreen_saving, createContactPc, contactFetches,
                   serverContacts>>
    /\ UNCHANGED outsideContacts

\* the close button of the modal: setShowModal(false) and resetForm
closeContactModal ==
    /\ screen = "ContactsScreen"
    /\ ContactsScreen_showModal
    /\ ContactsScreen_showModal' = FALSE
    /\ contactName' = <<>>
    /\ contactPhone' = <<>>
    /\ contactTelegram' = <<>>
    /\ alerts' = NoAlert
    /\ answer' = NoAnswer
    /\ UNCHANGED <<ContactsScreen_mounted, ContactsScreen_contacts,
                   ContactsScreen_loading, ContactsScreen_refreshing,
                   ContactsScreen_saving, createContactPc, contactFetches,
                   serverContacts>>
    /\ UNCHANGED outsideContacts

setContactName(text) ==
    /\ screen = "ContactsScreen"
    /\ ContactsScreen_showModal
    /\ contactName' = text
    /\ alerts' = NoAlert
    /\ answer' = NoAnswer
    /\ UNCHANGED <<ContactsScreen_mounted, ContactsScreen_contacts,
                   ContactsScreen_loading, ContactsScreen_refreshing,
                   ContactsScreen_showModal, contactPhone, contactTelegram,
                   ContactsScreen_saving, createContactPc, contactFetches,
                   serverContacts>>
    /\ UNCHANGED outsideContacts

setContactPhone(text) ==
    /\ screen = "ContactsScreen"
    /\ ContactsScreen_showModal
    /\ contactPhone' = text
    /\ alerts' = NoAlert
    /\ answer' = NoAnswer
    /\ UNCHANGED <<ContactsScreen_mounted, ContactsScreen_contacts,
                   ContactsScreen_loading, ContactsScreen_refreshing,
                   ContactsScreen_showModal, contactName, contactTelegram,
                   ContactsScreen_saving, createContactPc, contactFetches,
                   serverContacts>>
    /\ UNCHANGED outsideContacts

setContactTelegram(text) ==
    /\ screen = "ContactsScreen"
    /\ ContactsScreen_showModal
    /\ contactTelegram' = text
    /\ alerts' = NoAlert
    /\ answer' = NoAnswer
    /\ UNCHANGED <<ContactsScreen_mounted, ContactsScreen_contacts,
                   ContactsScreen_loading, ContactsScreen_refreshing,
                   ContactsScreen_showModal, contactName, contactPhone,
                   ContactsScreen_saving, createContactPc, contactFetches,
                   serverContacts>>
    /\ UNCHANGED outsideContacts

\* the save button of the modal, enabled while saving is false, up to the
\* await of the POST; the body of the request is not recorded
handleCreateContact ==
    /\ screen = "ContactsScreen"
    /\ ContactsScreen_showModal
    /\ ~ContactsScreen_saving
    /\ IF ~TruthyText(Trim(contactName))
       THEN /\ alerts' = <<AlertEnterContactName>>
            /\ UNCHANGED <<ContactsScreen_saving, createContactPc>>
       ELSE IF ~TruthyText(Trim(contactPhone))
               /\ ~TruthyText(Trim(contactTelegram))
       THEN /\ alerts' = <<AlertEnterPhoneOrTelegram>>
            /\ UNCHANGED <<ContactsScreen_saving, createContactPc>>
       ELSE /\ ContactsScreen_saving' = TRUE
            /\ createContactPc' = "posting"
            /\ alerts' = NoAlert
    /\ answer' = NoAnswer
    /\ UNCHANGED <<ContactsScreen_mounted, ContactsScreen_contacts,
                   ContactsScreen_loading, ContactsScreen_refreshing,
                   contactFormVars, contactFetches, serverContacts>>
    /\ UNCHANGED outsideContacts

\* the POST answered 2xx: the backend has one contact more, the modal is
\* closed, the form reset and fetchContacts called; without a token
\* fetchContacts returns at once and the handler finishes in this step
handleCreateContactOk ==
    /\ createContactPc = "posting"
    /\ serverContacts < MaxServerContacts
    /\ serverContacts' = serverContacts + 1
    /\ createContactPc' = "idle"
    /\ ContactsScreen_showModal' = FALSE
    /\ contactName' = <<>>
    /\ contactPhone' = <<>>
    /\ contactTelegram' = <<>>
    /\ IF TruthyStr(token)
       THEN /\ contactFetches' =
                  [contactFetches EXCEPT !["create"] = serverContacts + 1]
            /\ alerts' = NoAlert
            /\ UNCHANGED ContactsScreen_saving
       ELSE /\ alerts' = <<AlertContactAdded>>
            /\ ContactsScreen_saving' = FALSE
            /\ UNCHANGED contactFetches
    /\ answer' = Ok("createContact")
    /\ UNCHANGED <<ContactsScreen_mounted, ContactsScreen_contacts,
                   ContactsScreen_loading, ContactsScreen_refreshing>>
    /\ UNCHANGED outsideContacts

\* handleCreateContact clearing saving in the 2xx branch only
handleCreateContactFailed_StaysBusy(ans) ==
    /\ createContactPc = "posting"
    /\ createContactPc' = "idle"
    /\ alerts' =
          IF ans.status = "rejected"
          THEN <<[title |-> "Error",
                  message |-> IF TruthyStr(ans.detail) THEN ans.detail
                              ELSE ContactNotAdded]>>
          ELSE <<AlertConnectivity>>
    /\ answer' = ans
    /\ UNCHANGED <<ContactsScreen_mounted, ContactsScreen_contacts,
                   ContactsScreen_loading, ContactsScreen_refreshing,
                   contactFormVars, ContactsScreen_saving, contactFetches,
                   serverContacts>>
    /\ UNCHANGED outsideContacts

\* the POST answered non-2xx (the alert shows the detail of the body, or a
\* fixed text if it has none; a body that is no JSON throws), or fetch threw
handleCreateContactFailed(ans) ==
    /\ createContactPc = "posting"
    /\ createContactPc' = "idle"
    /\ ContactsScreen_saving' = FALSE
    /\ alerts' =
          IF ans.status = "rejected"
          THEN <<[title |-> "Error",
                  message |-> IF TruthyStr(ans.detail) THEN ans.detail
                              ELSE ContactNotAdded]>>
          ELSE <<AlertConnectivity>>
    /\ answer' = ans
    /\ UNCHANGED <<ContactsScreen_mounted, ContactsScreen_contacts,
                   ContactsScreen_loading, ContactsScreen_refreshing,
                   contactFormVars, contactFetches, serverContacts>>
    /\ UNCHANGED outsideContacts

(***************************************************************************)
(* TemplatesScreen.  The backend serves a GET /api/templates when it is    *)
(* issued, as for the contacts.                                            *)
(***************************************************************************)
MaxServerTemplates == 1

\* the alerts of TemplatesScreen.tsx (lines 55, 96) and the text that stands
\* in for a missing detail (99)
AlertTemplatesLoadFailed ==
    [title |-> "Error", message |-> "Failed to load the templates"]
AlertTemplateCreated == [title |-> "Success", message |-> "Template created"]
TemplateNotCreated == "Failed to create the template"

\* the list the backend answers with when it has n templates
TemplateList(n) == [i \in 1..n |-> TemplateId(i)]

\* fetchTemplates up to its await: nothing without a token, a request
\* otherwise
FetchTemplatesCalled(origin) ==
    IF TruthyStr(token)
    THEN [templateFetches EXCEPT ![origin] = serverTemplates]
    ELSE templateFetches

\* the alerts of fetchTemplates for an answer that is not 2xx, or a throw
FetchTemplatesAlerts(ans) ==
    IF ans.status = "threw"
    THEN <<AlertConnectivity>>
    ELSE <<AlertTemplatesLoadFailed>>

\* the mount effect calls fetchTemplates
TemplatesScreen_mount ==
    /\ screen = "TemplatesScreen"
    /\ ~TemplatesScreen_mounted
    /\ TemplatesScreen_mounted' = TRUE
    /\ templateFetches' = FetchTemplatesCalled("mount")
    /\ alerts' = NoAlert
    /\ answer' = NoAnswer
    /\ UNCHANGED <<TemplatesScreen_templates, TemplatesScreen_loading,
                   TemplatesScreen_refreshing, templateFormVars,
                   TemplatesScreen_saving, createTemplatePc, serverTemplates>>
    /\ UNCHANGED outsideTemplates

\* pull-to-refresh, which the control offers while refreshing is false
TemplatesScreen_onRefresh ==
    /\ screen = "TemplatesScreen"
    /\ TemplatesScreen_mounted
    /\ ~TemplatesScreen_refreshing
    /\ templateFetches' = FetchTemplatesCalled("refresh")
    /\ TemplatesScreen_refreshing' = TruthyStr(token)
    /\ alerts' = NoAlert
    /\ answer' = NoAnswer
    /\ UNCHANGED <<TemplatesScreen_mounted, TemplatesScreen_templates,
                   TemplatesScreen_loading, templateFormVars,
                   TemplatesScreen_saving, createTemplatePc, serverTemplates>>
    /\ UNCHANGED outsideTemplates

\* fetchTemplates answered 2xx, and what its caller does after the await
fetchTemplatesOk(origin) ==
    /\ templateFetches[origin] # NotInFlight
    /\ TemplatesScreen_templates' = TemplateList(templateFetches[origin])
    /\ TemplatesScreen_loading' = FALSE
    /\ templateFetches' = [templateFetches EXCEPT ![origin] = NotInFlight]
    /\ TemplatesScreen_refreshing' =
          IF origin = "refresh" THEN FALSE ELSE TemplatesScreen_refreshing
    /\ TemplatesScreen_saving' =
          IF origin = "create" THEN FALSE ELSE TemplatesScreen_saving
    /\ alerts' = IF origin = "create" THEN <<AlertTemplateCreated>> ELSE NoAlert
    /\ answer' = Ok("fetchTemplates")
    /\ UNCHANGED <<TemplatesScreen_mounted, templateFormVars,
                   createTemplatePc, serverTemplates>>
    /\ UNCHANGED outsideTemplates

\* fetchTemplates answered non-2xx, or fetch threw
fetchTemplatesFailed(origin, ans) ==
    /\ templateFetches[origin] # NotInFlight
    /\ TemplatesScreen_loading' = FALSE
    /\ templateFetches' = [templateFetches EXCEPT ![origin] = NotInFlight]
    /\ TemplatesScreen_refreshing' =
          IF origin = "refresh" THEN FALSE ELSE TemplatesScreen_refreshing
    /\ TemplatesScreen_saving' =
          IF origin = "create" THEN FALSE ELSE TemplatesScreen_saving
    /\ alerts' = IF origin = "create"
                 THEN FetchTemplatesAlerts(ans) \o <<AlertTemplateCreated>>
                 ELSE FetchTemplatesAlerts(ans)
    /\ answer' = ans
    /\ UNCHANGED <<TemplatesScreen_mounted, TemplatesScreen_templates,
                   templateFormVars, createTemplatePc, serverTemplates>>
    /\ UNCHANGED outsideTemplates

\* the add buttons of the header and of the empty list
openTemplateModal ==
    /\ screen = "TemplatesScreen"
    /\ TemplatesScreen_mounted
    /\ ~TemplatesScreen_showModal
    /\ TemplatesScreen_showModal' = TRUE
    /\ alerts' = NoAlert
    /\ answer' = NoAnswer
    /\ UNCHANGED <<TemplatesScreen_mounted, TemplatesScreen_templates,
                   TemplatesScreen_loading, TemplatesScreen_refreshing,
                   templateName, templateContent, TemplatesScreen_saving,
                   createTemplatePc, templateFetches, serverTemplates>>
    /\ UNCHANGED outsideTemplates

\* the close button of the modal, which keeps the texts
closeTemplateModal ==
    /\ screen = "TemplatesScreen"
    /\ TemplatesScreen_showModal
    /\ TemplatesScreen_showModal' = FALSE
    /\ alerts' = NoAlert
    /\ answer' = NoAnswer
    /\ UNCHANGED <<TemplatesScreen_mounted, TemplatesScreen_templates,
                   TemplatesScreen_loading, TemplatesScreen_refreshing,
                   templateName, templateContent, TemplatesScreen_saving,
                   createTemplatePc, templateFetches, serverTemplates>>
    /\ UNCHANGED outsideTemplates

setTemplateName(text) ==
    /\ screen = "TemplatesScreen"
    /\ TemplatesScreen_showModal
    /\ templateName' = text
    /\ alerts' = NoAlert
    /\ answer' = NoAnswer
    /\ UNCHANGED <<TemplatesScreen_mounted, TemplatesScreen_templates,
                   TemplatesScreen_loading, TemplatesScreen_refreshing,
                   TemplatesScreen_showModal, templateContent,
                   TemplatesScreen_saving, createTemplatePc, templateFetches,
                   serverTemplates>>
    /\ UNCHANGED outsideTemplates

setTemplateContent(text) ==
    /\ screen = "TemplatesScreen"
    /\ TemplatesScreen_showModal
    /\ templateContent' = text
    /\ alerts' = NoAlert
    /\ answer' = NoAnswer
    /\ UNCHANGED <<TemplatesScreen_mounted, TemplatesScreen_templates,
                   TemplatesScreen_loading, TemplatesScreen_refreshing,
                   TemplatesScreen_showModal, templateName,
                   TemplatesScreen_saving, createTemplatePc, templateFetches,
                   serverTemplates>>
    /\ UNCHANGED outsideTemplates

\* the save button of the modal, enabled while saving is false, up to the
\* await of the POST; the body of the request is not recorded
handleCreateTemplate ==
    /\ screen = "TemplatesScreen"
    /\ TemplatesScreen_showModal
    /\ ~TemplatesScreen_saving
    /\ IF ~TruthyText(Trim(templateName)) \/ ~TruthyText(Trim(templateContent))
       THEN /\ alerts' = <<AlertFillAllFields>>
            /\ UNCHANGED <<TemplatesScreen_saving, createTemplatePc>>
       ELSE /\ TemplatesScreen_saving' = TRUE
            /\ createTemplatePc' = "posting"
            /\ alerts' = NoAlert
    /\ answer' = NoAnswer
    /\ UNCHANGED <<TemplatesScreen_mounted, TemplatesScreen_templates,
                   TemplatesScreen_loading, TemplatesScreen_refreshing,
                   templateFormVars, templateFetches, serverTemplates>>
    /\ UNCHANGED outsideTemplates

\* the POST answered 2xx: the backend has one template more, the modal is
\* closed, the texts cleared and fetchTemplates called; without a token
\* fetchTemplates returns at once and the handler finishes in this step
handleCreateTemplateOk ==
    /\ createTemplatePc = "posting"
    /\ serverTemplates < MaxServerTemplates
    /\ serverTemplates' = serverTemplates + 1
    /\ createTemplatePc' = "idle"
    /\ TemplatesScreen_showModal' = FALSE
    /\ templateName' = <<>>
    /\ templateContent' = <<>>
    /\ IF TruthyStr(token)
       THEN /\ templateFetches' =
                  [templateFetches EXCEPT !["create"] = serverTemplates + 1]
            /\ alerts' = NoAlert
            /\ UNCHANGED TemplatesScreen_saving
       ELSE /\ alerts' = <<AlertTemplateCreated>>
            /\ TemplatesScreen_saving' = FALSE
            /\ UNCHANGED templateFetches
    /\ answer' = Ok("createTemplate")
    /\ UNCHANGED <<TemplatesScreen_mounted, TemplatesScreen_templates,
                   TemplatesScreen_loading, TemplatesScreen_refreshing>>
    /\ UNCHANGED outsideTemplates

\* the POST answered non-2xx (the alert shows the detail of the body, or a
\* fixed text if it has none; a body that is no JSON throws), or fetch threw
handleCreateTemplateFailed(ans) ==
    /\ createTemplatePc = "posting"
    /\ createTemplatePc' = "idle"
    /\ TemplatesScreen_saving' = FALSE
    /\ alerts' =
          IF ans.status = "rejected"
          THEN <<[title |-> "Error",
                  message |-> IF TruthyStr(ans.detail) THEN ans.detail
                              ELSE TemplateNotCreated]>>
          ELSE <<AlertConnectivity>>
    /\ answer' = ans
    /\ UNCHANGED <<TemplatesScreen_mounted, TemplatesScreen_templates,
                   TemplatesScreen_loading, TemplatesScreen_refreshing,
                   templateFormVars, templateFetches, serverTemplates>>
    /\ UNCHANGED outsideTemplates

(***************************************************************************)
(* AddAccountScreen.                                                       *)
(***************************************************************************)
\* the alerts of the AddAccountScreen (part_001, lines 38, 43, 80) and the
\* text that stands in for a missing detail (95)
AlertSelectMessenger ==
    [title |-> "Error", message |-> "Select a messenger"]
AlertEnterAccountName ==
    [title |-> "Error", message |-> "Enter the account name"]
AlertAccountAdded ==
    [title |-> "Success", message |-> "Account added"]
AccountNotAdded == "Failed to add the account"

\* the messengers the screen offers
OfferedMessengers == {"telegram", "whatsapp"}

\* the pages the WebView opens
WebViewUrl(type) ==
    IF type = "telegram"
    THEN "https://web.telegram.org/k/"
    ELSE "https://web.whatsapp.com/"

handleSelectMessenger(type) ==
    /\ screen = "AddAccountScreen"
    /\ ~showWebView
    /\ selectedMessenger' = type
    /\ alerts' = NoAlert
    /\ answer' = NoAnswer
    /\ UNCHANGED <<accountName, showWebView, webViewUrl,
                   AddAccountScreen_loading, saveAccountPc, accountAddedShown>>
    /\ UNCHANGED outsideAddAccount

setAccountName(text) ==
    /\ screen = "AddAccountScreen"
    /\ ~showWebView
    /\ accountName' = text
    /\ alerts' = NoAlert
    /\ answer' = NoAnswer
    /\ UNCHANGED <<selectedMessenger, showWebView, webViewUrl,
                   AddAccountScreen_loading, saveAccountPc, accountAddedShown>>
    /\ UNCHANGED outsideAddAccount

\* the Next button, which is disabled without a messenger or with a blank
\* name
handleNext ==
    /\ screen = "AddAccountScreen"
    /\ ~showWebView
    /\ TruthyStr(selectedMessenger)
    /\ TruthyText(Trim(accountName))
    /\ IF ~TruthyStr(selectedMessenger)
       THEN /\ alerts' = <<AlertSelectMessenger>>
            /\ UNCHANGED <<showWebView, webViewUrl>>
       ELSE IF ~TruthyText(Trim(accountName))
       THEN /\ alerts' = <<AlertEnterAccountName>>
            /\ UNCHANGED <<showWebView, webViewUrl>>
       ELSE /\ webViewUrl' = WebViewUrl(selectedMessenger)
            /\ showWebView' = TRUE
            /\ alerts' = NoAlert
    /\ answer' = NoAnswer
    /\ UNCHANGED <<selectedMessenger, accountName, AddAccountScreen_loading,
                   saveAccountPc, accountAddedShown>>
    /\ UNCHANGED outsideAddAccount

\* the close button of the WebView (handleCloseWebView) and the button of
\* its dialog that confirms
closeWebViewConfirmed ==
    /\ screen = "AddAccountScreen"
    /\ showWebView
    /\ ~accountAddedShown
    /\ showWebView' = FALSE
    /\ alerts' = NoAlert
    /\ answer' = NoAnswer
    /\ UNCHANGED <<selectedMessenger, accountName, webViewUrl,
                   AddAccountScreen_loading, saveAccountPc, accountAddedShown>>
    /\ UNCHANGED outsideAddAccount

\* the save button of the WebView, enabled while loading is false, up to
\* the await of the POST
handleSaveAccount ==
    /\ screen = "AddAccountScreen"
    /\ showWebView
    /\ ~accountAddedShown
    /\ ~AddAccountScreen_loading
    /\ IF ~TruthyStr(selectedMessenger) \/ ~TruthyText(Trim(accountName))
       THEN UNCHANGED <<AddAccountScreen_loading, saveAccountPc>>
       ELSE /\ AddAccountScreen_loading' = TRUE
            /\ saveAccountPc' = "posting"
    /\ alerts' = NoAlert
    /\ answer' = NoAnswer
    /\ UNCHANGED <<accountFormVars, accountAddedShown>>
    /\ UNCHANGED outsideAddAccount

\* the POST answered 2xx: the success dialog is shown
handleSaveAccountOk ==
    /\ saveAccountPc = "posting"
    /\ saveAccountPc' = "idle"
    /\ accountAddedShown' = TRUE
    /\ AddAccountScreen_loading' = FALSE
    /\ alerts' = <<AlertAccountAdded>>
    /\ answer' = Ok("saveAccount")
    /\ UNCHANGED accountFormVars
    /\ UNCHANGED outsideAddAccount

\* the POST answered non-2xx, or fetch threw
handleSaveAccountFailed(ans) ==
    /\ saveAccountPc = "posting"
    /\ saveAccountPc' = "idle"
    /\ AddAccountScreen_loading' = FALSE
    /\ alerts' =
          IF ans.status = "rejected"
          THEN <<[title |-> "Error",
                  message |-> IF TruthyStr(ans.detail) THEN ans.detail
                              ELSE AccountNotAdded]>>
          ELSE <<AlertConnectivity>>
    /\ answer' = ans
    /\ UNCHANGED <<accountFormVars, accountAddedShown>>
    /\ UNCHANGED outsideAddAccount

\* the OK button of the success dialog: setShowWebView(false) and
\* navigation.goBack(), which unmounts the screen; the next visit
\* constructs it anew
accountAddedOk ==
    /\ accountAddedShown
    /\ accountAddedShown' = FALSE
    /\ showWebView' = FALSE
    /\ selectedMessenger' = Null
    /\ accountName' = <<>>
    /\ webViewUrl' = ""
    /\ alerts' = NoAlert
    /\ answer' = NoAnswer
    /\ UNCHANGED <<AddAccountScreen_loading, saveAccountPc>>
    /\ UNCHANGED outsideAddAccount

(***************************************************************************)
(* AdminScreen: the data it fetches and the pricing modal.  The handlers   *)
(* that change a user (handleToggleUnlimited, handleChangeSubscription)    *)
(* are not part of the model.                                              *)
(***************************************************************************)
MaxPriceText == 2
MaxPricingPuts == 1

\* an administrator, with the role the other records leave out
AdminUser == [subscription_plan |-> "corporate", is_unlimited |-> TRUE,
              messages_sent_this_month |-> 0, role |-> "admin"]

\* user?.role
UserRole(u) ==
    IF u = NoUser THEN Undefined
    ELSE IF "role" \in DOMAIN u THEN u.role
    ELSE "user"

\* the users the backend answers GET /api/users with
ServerUsers == <<AdminUser>>

\* characters of a numeric keypad
PriceChars == {" ", "1", "-"}
PriceTexts == SeqsUpTo(MaxPriceText, PriceChars)

DigitChars == <<"0", "1", "2", "3", "4", "5", "6", "7", "8", "9">>
IsDigit(c) == \E i \in 1..10 : DigitChars[i] = c
DigitValue(c) == (CHOOSE i \in 1..10 : DigitChars[i] = c) - 1

\* the longest prefix of digits
RECURSIVE DigitPrefix(_)
DigitPrefix(t) ==
    IF t # <<>> /\ IsDigit(Head(t))
    THEN <<Head(t)>> \o DigitPrefix(Tail(t))
    ELSE <<>>

RECURSIVE DigitsValue(_)
DigitsValue(ds) ==
    IF ds = <<>> THEN 0
    ELSE 10 * DigitsValue(SubSeq(ds, 1, Len(ds) - 1)) + DigitValue(ds[Len(ds)])

NaN == [nan |-> TRUE, value |-> 0]

\* parseInt(text): leading white space is skipped, then an optional sign and
\* the longest run of digits are read and the rest of the text is ignored;
\* NaN if there is no digit
ParseInt(t) ==
    LET s == TrimStart(t)
        signed == s # <<>> /\ Head(s) \in {"-", "+"}
        digits == DigitPrefix(IF signed THEN Tail(s) ELSE s)
    IN IF digits = <<>> THEN NaN
       ELSE [nan |-> FALSE,
             value |-> IF signed /\ Head(s) = "-"
                       THEN 0 - DigitsValue(digits)
                       ELSE DigitsValue(digits)]

\* Number.prototype.toString of an integer
RECURSIVE NumberToString(_)
NumberToString(n) ==
    IF n < 0 THEN <<"-">> \o NumberToString(0 - n)
    ELSE IF n < 10 THEN <<DigitChars[n + 1]>>
    ELSE NumberToString(n \div 10) \o <<DigitChars[(n % 10) + 1]>>

\* the alerts of handleUpdatePricing (AdminScreen.tsx, lines 137, 143, 162,
\* 164)
AlertSelectPlanAndPrice ==
    [title |-> "Error", message |-> "Select a plan and enter the new price"]
AlertEnterValidPrice ==
    [title |-> "Error", message |-> "Enter a valid price"]
AlertPriceUpdated == [title |-> "Success", message |-> "Price updated"]
AlertPriceNotUpdated ==
    [title |-> "Error", message |-> "Failed to update the price"]

\* fetchAdminData up to its await: nothing without a token, the two
\* requests otherwise
FetchAdminDataCalled(origin) ==
    IF TruthyStr(token)
    THEN [adminFetches EXCEPT ![origin] = serverPrice]
    ELSE adminFetches

\* the effect with the dependency [user]: it runs after the first render
\* and after each change of user, and fetches for an administrator.  A
\* second run that fetches waits for the answer to the first.
AdminScreen_effect ==
    /\ screen = "AdminScreen"
    /\ adminEffectUser # user
    /\ adminFetches["effect"] = NotInFlight
    /\ adminEffectUser' = user
    /\ adminFetches' = IF UserRole(user) = "admin"
                       THEN FetchAdminDataCalled("effect")
                       ELSE adminFetches
    /\ alerts' = NoAlert
    /\ answer' = NoAnswer
    /\ UNCHANGED <<AdminScreen_users, subscriptionPlans, AdminScreen_loading,
                   AdminScreen_refreshing, pricingFormVars, pricingPuts,
                   serverPrice>>
    /\ UNCHANGED outsideAdmin

\* pull-to-refresh of the administrator's view
AdminScreen_onRefresh ==
    /\ screen = "AdminScreen"
    /\ adminEffectUser # NotMounted
    /\ UserRole(user) = "admin"
    /\ ~AdminScreen_refreshing
    /\ adminFetches' = FetchAdminDataCalled("refresh")
    /\ AdminScreen_refreshing' = TruthyStr(token)
    /\ alerts' = NoAlert
    /\ answer' = NoAnswer
    /\ UNCHANGED <<adminEffectUser, AdminScreen_users, subscriptionPlans,
                   AdminScreen_loading, pricingFormVars, pricingPuts,
                   serverPrice>>
    /\ UNCHANGED outsideAdmin

\* both requests of fetchAdminData answered 2xx, and what the caller does
\* after the await
fetchAdminDataOk(origin) ==
    /\ adminFetches[origin] # NotInFlight
    /\ AdminScreen_users' = ServerUsers
    /\ subscriptionPlans' = [k \in PlanKeys |-> adminFetches[origin]]
    /\ AdminScreen_loading' = FALSE
    /\ adminFetches' = [adminFetches EXCEPT ![origin] = NotInFlight]
    /\ AdminScreen_refreshing' =
          IF origin = "refresh" THEN FALSE ELSE AdminScreen_refreshing
    /\ alerts' = IF origin = "update" THEN <<AlertPriceUpdated>> ELSE NoAlert
    /\ answer' = Ok("fetchAdminData")
    /\ UNCHANGED <<adminEffectUser, pricingFormVars, pricingPuts, serverPrice>>
    /\ UNCHANGED outsideAdmin

\* a request of fetchAdminData answered non-2xx, which the function passes
\* over in silence, or threw
fetchAdminDataFailed(origin, ans) ==
    /\ adminFetches[origin] # NotInFlight
    /\ AdminScreen_loading' = FALSE
    /\ adminFetches' = [adminFetches EXCEPT ![origin] = NotInFlight]
    /\ AdminScreen_refreshing' =
          IF origin = "refresh" THEN FALSE ELSE AdminScreen_refreshing
    /\ alerts' =
          (IF ans.status = "threw" THEN <<AlertLoadFailed>> ELSE NoAlert)
          \o (IF origin = "update" THEN <<AlertPriceUpdated>> ELSE NoAlert)
    /\ answer' = ans
    /\ UNCHANGED <<adminEffectUser, AdminScreen_users, subscriptionPlans,
                   pricingFormVars, pricingPuts, serverPrice>>
    /\ UNCHANGED outsideAdmin

\* the card that opens the pricing modal
openPricingModal ==
    /\ screen = "AdminScreen"
    /\ adminEffectUser # NotMounted
    /\ UserRole(user) = "admin"
    /\ ~showPricingModal
    /\ showPricingModal' = TRUE
    /\ alerts' = NoAlert
    /\ answer' = NoAnswer
    /\ UNCHANGED <<adminEffectUser, adminDataVars, selectedPlan, newPrice,
                   pricingPuts, serverPrice>>
    /\ UNCHANGED outsideAdmin

\* the pencil of a plan on the screen and the plan's row in the modal: the
\* plan is selected and its price written into the field
selectPlan(planKey) ==
    /\ screen = "AdminScreen"
    /\ adminEffectUser # NotMounted
    /\ UserRole(user) = "admin"
    /\ planKey \in DOMAIN subscriptionPlans
    /\ selectedPlan' = planKey
    /\ newPrice' = NumberToString(subscriptionPlans[planKey])
    /\ showPricingModal' = TRUE
    /\ alerts' = NoAlert
    /\ answer' = NoAnswer
    /\ UNCHANGED <<adminEffectUser, adminDataVars, pricingPuts, serverPrice>>
    /\ UNCHANGED outsideAdmin

setNewPrice(text) ==
    /\ screen = "AdminScreen"
    /\ UserRole(user) = "admin"
    /\ showPricingModal
    /\ newPrice' = text
    /\ alerts' = NoAlert
    /\ answer' = NoAnswer
    /\ UNCHANGED <<adminEffectUser, adminDataVars, showPricingModal,
                   selectedPlan, pricingPuts, serverPrice>>
    /\ UNCHANGED outsideAdmin

\* the close button of the pricing modal
closePricingModal ==
    /\ screen = "AdminScreen"
    /\ UserRole(user) = "admin"
    /\ showPricingModal
    /\ showPricingModal' = FALSE
    /\ selectedPlan' = ""
    /\ newPrice' = <<>>
    /\ alerts' = NoAlert
    /\ answer' = NoAnswer
    /\ UNCHANGED <<adminEffectUser, adminDataVars, pricingPuts, serverPrice>>
    /\ UNCHANGED outsideAdmin

\* the save button of the pricing modal, which no flag disables, up to the
\* await of the PUT; the token is the one of the render the handler was
\* created in, which the code after the await still reads
handleUpdatePricing ==
    /\ screen = "AdminScreen"
    /\ UserRole(user) = "admin"
    /\ showPricingModal
    /\ Len(pricingPuts) < MaxPricingPuts
    /\ IF ~TruthyStr(selectedPlan) \/ ~TruthyText(Trim(newPrice))
       THEN /\ alerts' = <<AlertSelectPlanAndPrice>>
            /\ UNCHANGED pricingPuts
       ELSE LET price == ParseInt(newPrice)
            IN IF price.nan \/ price.value < 0
               THEN /\ alerts' = <<AlertEnterValidPrice>>
                    /\ UNCHANGED pricingPuts
               ELSE /\ pricingPuts' =
                          Append(pricingPuts,
                                 [plan |-> selectedPlan, price |-> price.value,
                                  token |-> token])
                    /\ alerts' = NoAlert
    /\ answer' = NoAnswer
    /\ UNCHANGED <<adminEffectUser, adminDataVars, pricingFormVars,
                   serverPrice>>
    /\ UNCHANGED outsideAdmin

\* the sequence without its i-th element
RemoveAt(seq, i) == SubSeq(seq, 1, i - 1) \o SubSeq(seq, i + 1, Len(seq))

\* a PUT answered 2xx: the backend has the new price, the modal is closed
\* and cleared and fetchAdminData called, the one of the handler's render
\* with the token of that render; without a token fetchAdminData returns at
\* once and the handler finishes in this step.  The call waits for the
\* answer to an earlier call of this handler.
handleUpdatePricingOk(i) ==
    /\ i \in 1..Len(pricingPuts)
    /\ adminFetches["update"] = NotInFlight
    /\ serverPrice' = pricingPuts[i].price
    /\ pricingPuts' = RemoveAt(pricingPuts, i)
    /\ showPricingModal' = FALSE
    /\ selectedPlan' = ""
    /\ newPrice' = <<>>
    /\ IF TruthyStr(pricingPuts[i].token)
       THEN /\ adminFetches' =
                  [adminFetches EXCEPT !["update"] = pricingPuts[i].price]
            /\ alerts' = NoAlert
       ELSE /\ alerts' = <<AlertPriceUpdated>>
            /\ UNCHANGED adminFetches
    /\ answer' = Ok("updatePricing")
    /\ UNCHANGED <<adminEffectUser, AdminScreen_users, subscriptionPlans,
                   AdminScreen_loading, AdminScreen_refreshing>>
    /\ UNCHANGED outsideAdmin

\* a PUT answered non-2xx, whose body is not read, or fetch threw
handleUpdatePricingFailed(i, ans) ==
    /\ i \in 1..Len(pricingPuts)
    /\ pricingPuts' = RemoveAt(pricingPuts, i)
    /\ alerts' = IF ans.status = "threw"
                 THEN <<AlertConnectivity>>
                 ELSE <<AlertPriceNotUpdated>>
    /\ answer' = ans
    /\ UNCHANGED <<adminEffectUser, adminDataVars, pricingFormVars,
                   serverPrice>>
    /\ UNCHANGED outsideAdmin

(***************************************************************************)
(* Specification of the ContactsScreen, in a session that logs in and out. *)
(***************************************************************************)
NextContacts ==
    \/ loginAnswered(SampleUser)
    \/ logout
    \/ ContactsScreen_mount
    \/ ContactsScreen_onRefresh
    \/ \E origin \in FetchOrigins : fetchContactsOk(origin)
    \/ \E origin \in FetchOrigins, ans \in Failures("fetchContacts") :
          fetchContactsFailed(origin, ans)
    \/ openContactModal
    \/ closeContactModal
    \/ \E text \in FieldTexts : setContactName(text)
    \/ \E text \in FieldTexts : setContactPhone(text)
    \/ \E text \in FieldTexts : setContactTelegram(text)
    \/ handleCreateContact
    \/ handleCreateContactOk
    \/ \E ans \in Failures("createContact") : handleCreateContactFailed(ans)

\* the app after construction, the user on the ContactsScreen
InitContacts ==
    /\ InitBroadcast /\ InitHistory /\ InitAuth /\ InitStart /\ InitForms
    /\ screen = "ContactsScreen"

SpecContacts == InitContacts /\ [][NextContacts]_vars

(***************************************************************************)
(* Specification of the screens whose form has a busy flag: the            *)
(* AuthScreen, the ContactsScreen, the TemplatesScreen and the             *)
(* AddAccountScreen.  The screens share no state but the session, and a    *)
(* behaviour follows the user on one of them.  Each request that is in     *)
(* flight is answered, or throws, in the end: the fairness conditions are  *)
(* on the steps that consume the answers, one per request.                 *)
(***************************************************************************)
FormScreens == {"AuthScreen", "ContactsScreen", "TemplatesScreen",
                "AddAccountScreen"}

InitFormScreens ==
    /\ InitBroadcast /\ InitHistory /\ InitAuth /\ InitStart /\ InitForms
    /\ screen \in FormScreens

\* the text the fields of these behaviours are filled with
FilledText == <<"a">>

loginAnswers ==
    \/ handleLoginOk(SampleUser)
    \/ \E ans \in Failures("login") : handleLoginFailed(ans)

registerAnswers ==
    \/ handleRegisterOk
    \/ \E ans \in Failures("register") : handleRegisterFailed(ans)

createContactAnswers ==
    \/ handleCreateContactOk
    \/ \E ans \in Failures("createContact") : handleCreateContactFailed(ans)

fetchContactsAnswers(origin) ==
    \/ fetchContactsOk(origin)
    \/ \E ans \in Failures("fetchContacts") : fetchContactsFailed(origin, ans)

createTemplateAnswers ==
    \/ handleCreateTemplateOk
    \/ \E ans \in Failures("createTemplate") : handleCreateTemplateFailed(ans)

fetchTemplatesAnswers(origin) ==
    \/ fetchTemplatesOk(origin)
    \/ \E ans \in Failures("fetchTemplates") :
          fetchTemplatesFailed(origin, ans)

saveAccountAnswers ==
    \/ handleSaveAccountOk
    \/ \E ans \in Failures("saveAccount") : handleSaveAccountFailed(ans)

NextForms ==
    \/ loginAnswered(SampleUser)
    \/ logout
    \/ setEmail(FilledText)
    \/ setUsername(FilledText)
    \/ setPassword(FilledText)
    \/ switchView
    \/ handleLogin
    \/ handleLoginOk(SampleUser)
    \/ \E ans \in Failures("login") : handleLoginFailed(ans)
    \/ handleRegister
    \/ handleRegisterOk
    \/ \E ans \in Failures("register") : handleRegisterFailed(ans)
    \/ ContactsScreen_mount
    \/ ContactsScreen_onRefresh
    \/ \E origin \in FetchOrigins : fetchContactsOk(origin)
    \/ \E origin \in FetchOrigins, ans \in Failures("fetchContacts") :
          fetchContactsFailed(origin, ans)
    \/ openContactModal
    \/ closeContactModal
    \/ setContactName(FilledText)
    \/ setContactPhone(FilledText)
    \/ setContactTelegram(FilledText)
    \/ handleCreateContact
    \/ handleCreateContactOk
    \/ \E ans \in Failures("createContact") : handleCreateContactFailed(ans)
    \/ TemplatesScreen_mount
    \/ TemplatesScreen_onRefresh
    \/ \E origin \in FetchOrigins : fetchTemplatesOk(origin)
    \/ \E origin \in FetchOrigins, ans \in Failures("fetchTemplates") :
          fetchTemplatesFailed(origin, ans)
    \/ openTemplateModal
    \/ closeTemplateModal
    \/ setTemplateName(FilledText)
    \/ setTemplateContent(FilledText)
    \/ handleCreateTemplate
    \/ handleCreateTemplateOk
    \/ \E ans \in Failures("createTemplate") : handleCreateTemplateFailed(ans)
    \/ \E type \in OfferedMessengers : handleSelectMessenger(type)
    \/ setAccountName(FilledText)
    \/ handleNext
    \/ closeWebViewConfirmed
    \/ handleSaveAccount
    \/ handleSaveAccountOk
    \/ \E ans \in Failures("saveAccount") : handleSaveAccountFailed(ans)
    \/ accountAddedOk

\* every request a busy flag waits for is answered or throws
AnswersArrive ==
    /\ WF_vars(loginAnswers)
    /\ WF_vars(registerAnswers)
    /\ WF_vars(createContactAnswers)
    /\ WF_vars(fetchContactsAnswers("create"))
    /\ WF_vars(createTemplateAnswers)
    /\ WF_vars(fetchTemplatesAnswers("create"))
    /\ WF_vars(saveAccountAnswers)

SpecForms == InitFormScreens /\ [][NextForms]_vars /\ AnswersArrive

(***************************************************************************)
(* Specification of the AdminScreen, in a session that logs in and out.    *)
(***************************************************************************)
\* the users of these sessions: one with the role user, one administrator
AdminUsers == {SampleUser, AdminUser}

InitAdmin ==
    /\ InitBroadcast /\ InitHistory /\ InitAuth /\ InitStart /\ InitForms
    /\ screen = "AdminScreen"

NextAdmin ==
    \/ \E u \in AdminUsers : loginAnswered(u)
    \/ logout
    \/ AdminScreen_effect
    \/ AdminScreen_onRefresh
    \/ \E origin \in AdminOrigins : fetchAdminDataOk(origin)
    \/ \E origin \in AdminOrigins, ans \in Failures("fetchAdminData") :
          fetchAdminDataFailed(origin, ans)
    \/ openPricingModal
    \/ \E planKey \in PlanKeys : selectPlan(planKey)
    \/ \E text \in PriceTexts : setNewPrice(text)
    \/ closePricingModal
    \/ handleUpdatePricing
    \/ \E i \in 1..MaxPricingPuts : handleUpdatePricingOk(i)
    \/ \E i \in 1..MaxPricingPuts, ans \in Failures("updatePricing") :
          handleUpdatePricingFailed(i, ans)

SpecAdmin == InitAdmin /\ [][NextAdmin]_vars

TypeOK ==
    /\ token \in {Null, SessionToken}
    /\ user \in Users \cup {NoUser, AdminUser}
    /\ screen \in FormScreens
                 \cup {"BroadcastScreen", "AdminScreen", "ScheduledScreen"}
    /\ fetchState \in {"unmounted", "skipped", "pending", "done"}
    /\ templateMode \in TemplateModes

(***************************************************************************)
(* ScheduledScreen.  The list is mock data the screen holds itself; no     *)
(* request is made.  The titles are the source's Russian ones in English.  *)
(***************************************************************************)
\* the alerts of ScheduledScreen.tsx (lines 70, 93, 97)
AlertAskCancel(title) ==
    [title |-> "Cancel the broadcast", message |-> title]
AlertBroadcastCancelled ==
    [title |-> "Success", message |-> "Broadcast cancelled"]
AlertEditNotReady ==
    [title |-> "Under development", message |-> "Editing comes later"]

\* mockData of loadMockData
MockData ==
    <<[id |-> "1", title |-> "Weekly broadcast",
       messenger_type |-> "telegram",
       scheduled_time |-> "2025-08-31T10:00:00Z", recipients_count |-> 25,
       status |-> "scheduled", created_at |-> "2025-08-30T15:30:00Z"],
      [id |-> "2", title |-> "Special offer",
       messenger_type |-> "whatsapp",
       scheduled_time |-> "2025-09-01T14:30:00Z", recipients_count |-> 150,
       status |-> "pending", created_at |-> "2025-08-30T12:15:00Z"]>>

BroadcastIds == {MockData[i].id : i \in DOMAIN MockData}

\* the item of the list with this id is rendered with its edit and cancel
\* buttons, which a cancelled item does not have
HasActions(broadcastId) ==
    \E i \in DOMAIN scheduledBroadcasts :
        /\ scheduledBroadcasts[i].id = broadcastId
        /\ scheduledBroadcasts[i].status # "cancelled"

TitleOf(broadcastId) ==
    LET i == CHOOSE j \in DOMAIN scheduledBroadcasts :
                 scheduledBroadcasts[j].id = broadcastId
    IN  scheduledBroadcasts[i].title

\* the mount effect calls loadMockData
ScheduledScreen_mount ==
    /\ screen = "ScheduledScreen"
    /\ ScheduledScreen_loading
    /\ scheduledBroadcasts' = MockData
    /\ ScheduledScreen_loading' = FALSE
    /\ alerts' = NoAlert
    /\ answer' = NoAnswer
    /\ UNCHANGED <<ScheduledScreen_refreshing, cancelAsked>>
    /\ UNCHANGED outsideScheduled

\* pull-to-refresh: refreshing is set, loadMockData is called and
\* refreshing is cleared, all in the one handler run
ScheduledScreen_onRefresh ==
    /\ screen = "ScheduledScreen"
    /\ ~ScheduledScreen_loading
    /\ ~ScheduledScreen_refreshing
    /\ cancelAsked = ""
    /\ scheduledBroadcasts' = MockData
    /\ ScheduledScreen_loading' = FALSE
    /\ ScheduledScreen_refreshing' = FALSE
    /\ alerts' = NoAlert
    /\ answer' = NoAnswer
    /\ UNCHANGED cancelAsked
    /\ UNCHANGED outsideScheduled

\* the cancel button of an item puts up the dialog, a modal Alert
handleCancelBroadcast(broadcastId) ==
    /\ screen = "ScheduledScreen"
    /\ cancelAsked = ""
    /\ HasActions(broadcastId)
    /\ cancelAsked' = broadcastId
    /\ alerts' = <<AlertAskCancel(TitleOf(broadcastId))>>
    /\ answer' = NoAnswer
    /\ UNCHANGED <<scheduledBroadcasts, ScheduledScreen_loading,
                   ScheduledScreen_refreshing>>
    /\ UNCHANGED outsideScheduled

\* the "no" button of the dialog
cancelDeclined ==
    /\ cancelAsked # ""
    /\ cancelAsked' = ""
    /\ alerts' = NoAlert
    /\ answer' = NoAnswer
    /\ UNCHANGED <<scheduledBroadcasts, ScheduledScreen_loading,
                   ScheduledScreen_refreshing>>
    /\ UNCHANGED outsideScheduled

\* the map of cancelBroadcast: the item with the id gets the status
\* cancelled, every other item is kept
CancelIn(list, broadcastId) ==
    [i \in DOMAIN list |->
        IF list[i].id = broadcastId
        THEN [list[i] EXCEPT !.status = "cancelled"]
        ELSE list[i]]

\* the "yes" button of the dialog calls cancelBroadcast with the id
cancelBroadcast(broadcastId) ==
    /\ cancelAsked = broadcastId
    /\ cancelAsked' = ""
    /\ scheduledBroadcasts' = CancelIn(scheduledBroadcasts, broadcastId)
    /\ alerts' = <<AlertBroadcastCancelled>>
    /\ answer' = NoAnswer
    /\ UNCHANGED <<ScheduledScreen_loading, ScheduledScreen_refreshing>>
    /\ UNCHANGED outsideScheduled

\* the edit button of an item
handleEditBroadcast(broadcastId) ==
    /\ screen = "ScheduledScreen"
    /\ cancelAsked = ""
    /\ HasActions(broadcastId)
    /\ alerts' = <<AlertEditNotReady>>
    /\ answer' = NoAnswer
    /\ UNCHANGED scheduledScreenVars
    /\ UNCHANGED outsideScheduled

(***************************************************************************)
(* Specification of the ScheduledScreen, in a session that logs in and     *)
(* out.                                                                    *)
(***************************************************************************)
\* the app after construction, the user on the ScheduledScreen
InitScheduled ==
    /\ InitBroadcast /\ InitHistory /\ InitAuth /\ InitStart /\ InitForms
    /\ screen = "ScheduledScreen"

NextScheduled ==
    \/ \E u \in Users : loginAnswered(u)
    \/ logout
    \/ ScheduledScreen_mount
    \/ ScheduledScreen_onRefresh
    \/ \E id \in BroadcastIds : handleCancelBroadcast(id)
    \/ cancelDeclined
    \/ \E id \in BroadcastIds : cancelBroadcast(id)
    \/ \E id \in BroadcastIds : handleEditBroadcast(id)

SpecScheduled == InitScheduled /\ [][NextScheduled]_vars

(***************************************************************************)
(* Properties of the eligibility evaluator.                                *)
(***************************************************************************)
\* the limit table as the design states it
PlanTable(plan) ==
    CASE plan = "free" -> 10
      [] plan = "basic" -> 1000
      [] plan = "professional" -> 5000
      [] plan = "corporate" -> 20000
      [] OTHER -> 0

LimitedUser == user # NoUser /\ ~user.is_unlimited

EligibleCount == Len(getEligibleContacts)

\* C1: a user who is not unlimited cannot start a broadcast that would take
\* messages_sent_this_month + eligible count above the plan limit, for every
\* messages_sent_this_month >= 0, 0 included.
C1_ExceedingSendBlocked ==
    (LimitedUser
        /\ user.messages_sent_this_month + EligibleCount
              > PlanTable(user.subscription_plan))
    => ~canStartBroadcast.canStart

\* C2: a user who is not unlimited and has messages_sent_this_month >= limit
\* cannot start a broadcast, limit 0 with 0 messages sent included.
C2_ExhaustedQuotaBlocked ==
    (LimitedUser
        /\ user.messages_sent_this_month >= PlanTable(user.subscription_plan))
    => ~canStartBroadcast.canStart

\* the evaluator with the quota step removed: the account/contact check and
\* the template check only
ResultWithoutQuota ==
    IF selectedAccount = "" \/ EligibleCount = 0
    THEN [canStart |-> FALSE, reason |-> ReasonAccount]
    ELSE IF templateMode = "single" /\ selectedTemplate = ""
    THEN [canStart |-> FALSE, reason |-> ReasonTemplate]
    ELSE IF templateMode # "single" /\ selectedTemplates = <<>>
    THEN [canStart |-> FALSE, reason |-> ReasonTemplates]
    ELSE [canStart |-> TRUE, reason |-> ""]

\* C3: for an unlimited user the quota never blocks: whatever the plan and
\* messages_sent_this_month, the evaluator answers as it would without the
\* quota step.
C3_UnlimitedSkipsQuota ==
    (user # NoUser /\ user.is_unlimited) => canStartBroadcast = ResultWithoutQuota

\* C3 witness: an unlimited user whose count is at or above the plan limit, and
\* who may start.
C3_Witness ==
    /\ user # NoUser
    /\ user.is_unlimited
    /\ user.messages_sent_this_month >= PlanTable(user.subscription_plan)
    /\ user.messages_sent_this_month > 0
    /\ canStartBroadcast.canStart

\* C4: a user who is not unlimited and whose plan is none of the four known
\* ones has limit 0 and can never start a broadcast.
C4_UnknownPlanBlocked ==
    (LimitedUser /\ user.subscription_plan \notin KnownPlans)
    => (getMessageLimit = 0 /\ ~canStartBroadcast.canStart)

(***************************************************************************)
(* Properties of the recipient selection.                                  *)
(***************************************************************************)
\* the fetched account the selection names has this messenger type
SelectedAccountIs(type) ==
    /\ selectedAccount # ""
    /\ \E i \in 1..Len(accounts) :
          /\ accounts[i].id = selectedAccount
          /\ accounts[i].messenger_type = type

HasTelegram(contact) ==
    contact.telegram_username # Undefined /\ contact.telegram_username # ""

HasPhone(contact) == contact.phone # Undefined /\ contact.phone # ""

\* position of the contact with this id in the fetched list
ContactIndex(id) == CHOOSE j \in 1..Len(contacts) : contacts[j].id = id

\* list e holds exactly the fetched contacts whose index is in wanted, in
\* fetched order
ExactlyThose(e, wanted) ==
    /\ \A i \in 1..Len(e) :
          \E j \in wanted : contacts[j] = e[i]
    /\ \A j \in wanted : \E i \in 1..Len(e) : e[i] = contacts[j]
    /\ \A i, k \in 1..Len(e) :
          i < k => ContactIndex(e[i].id) < ContactIndex(e[k].id)

WithTelegram == {j \in 1..Len(contacts) : HasTelegram(contacts[j])}

WithPhone == {j \in 1..Len(contacts) : HasPhone(contacts[j])}

\* C5: with a telegram account selected the eligible contacts are exactly the
\* fetched contacts with a present, non-empty telegram_username, in fetched
\* order, whatever their phone.
C5_TelegramEligible ==
    SelectedAccountIs("telegram") => ExactlyThose(getEligibleContacts, WithTelegram)

\* C5 witness: a telegram account is selected, a contact with a phone and an
\* empty username is left out and a contact without a phone is taken.
C5_Witness ==
    /\ SelectedAccountIs("telegram")
    /\ \E j \in 1..Len(contacts) :
          HasPhone(contacts[j]) /\ contacts[j].telegram_username = ""
    /\ \E i \in 1..Len(getEligibleContacts) : ~HasPhone(getEligibleContacts[i])

\* C6: with a whatsapp account selected the eligible contacts are exactly the
\* fetched contacts with a present, non-empty phone, whatever their
\* telegram_username.
C6_WhatsappEligible ==
    SelectedAccountIs("whatsapp") => ExactlyThose(getEligibleContacts, WithPhone)

\* C6 witness: a whatsapp account is selected, a contact with a username and an
\* empty phone is left out and a contact without a username is taken.
C6_Witness ==
    /\ SelectedAccountIs("whatsapp")
    /\ \E j \in 1..Len(contacts) :
          HasTelegram(contacts[j]) /\ contacts[j].phone = ""
    /\ \E i \in 1..Len(getEligibleContacts) : ~HasTelegram(getEligibleContacts[i])

(***************************************************************************)
(* Properties of the order of the checks and of the template check.        *)
(***************************************************************************)
\* C7: without a selected account, or without an eligible contact, the
\* evaluator blocks with the account/contacts reason, before the template and
\* quota checks are looked at.
C7_AccountCheckFirst ==
    (selectedAccount = "" \/ EligibleCount = 0)
    => canStartBroadcast = [canStart |-> FALSE, reason |-> ReasonAccount]

\* C7 witness: alternate mode with a template selected, an account selected
\* and no eligible contact.
C7_Witness ==
    /\ templateMode = "alternate"
    /\ Len(selectedTemplates) >= 1
    /\ selectedAccount # ""
    /\ EligibleCount = 0
    /\ canStartBroadcast.reason = ReasonAccount

\* C8: single mode without a selectedTemplate never starts, whatever the
\* other inputs are, a non-empty selectedTemplates included.
C8_SingleNeedsTemplate ==
    (templateMode = "single" /\ selectedTemplate = "") => ~canStartBroadcast.canStart

\* C8 witness: single mode without a selectedTemplate is blocked for the
\* template alone, with templates left selected from another mode.
C8_Witness ==
    /\ templateMode = "single"
    /\ selectedTemplate = ""
    /\ Len(selectedTemplates) >= 1
    /\ EligibleCount >= 1
    /\ canStartBroadcast = [canStart |-> FALSE, reason |-> ReasonTemplate]

\* C9: in random and alternate mode an empty selectedTemplates blocks the
\* start, a set selectedTemplate notwithstanding, and one selected template
\* is enough for the template check to pass.
C9_MultiNeedsOneTemplate ==
    templateMode \in {"random", "alternate"}
    => /\ selectedTemplates = <<>> => ~canStartBroadcast.canStart
       /\ Len(selectedTemplates) >= 1
            => canStartBroadcast.reason \notin {ReasonTemplate, ReasonTemplates}

\* C9 witness: alternate mode, a selectedTemplate kept from single mode, no
\* selectedTemplates: blocked for the templates alone.
C9_Witness ==
    /\ templateMode = "alternate"
    /\ selectedTemplate # ""
    /\ selectedTemplates = <<>>
    /\ EligibleCount >= 1
    /\ canStartBroadcast = [canStart |-> FALSE, reason |-> ReasonTemplates]

\* C10: getMessageLimit is the table free 10, basic 1000, professional 5000,
\* corporate 20000, and 0 for every other plan string and without a user.
C10_LimitTable ==
    getMessageLimit =
        IF user = NoUser THEN 0 ELSE PlanTable(user.subscription_plan)

\* C10 witness: a user on the professional plan is given 5000.
C10_Witness ==
    /\ user # NoUser
    /\ user.subscription_plan = "professional"
    /\ getMessageLimit = 5000

(***************************************************************************)
(* Properties of the quota step and of the evaluator as a whole.           *)
(***************************************************************************)
\* C11: for a user who is not unlimited and whom the account and template
\* checks let through: with sent < limit and sent + eligible > limit the
\* reason cites the headroom limit - sent, which is at least 1; with
\* sent >= limit the reason is the one for a reached limit.
C11_QuotaReasons ==
    (LimitedUser /\ ResultWithoutQuota.canStart)
    => LET sent == user.messages_sent_this_month
           limit == PlanTable(user.subscription_plan)
       IN  /\ (sent < limit /\ sent + EligibleCount > limit)
                => /\ limit - sent >= 1
                   /\ canStartBroadcast
                         = [canStart |-> FALSE,
                            reason |-> ReasonExceeds(limit - sent)]
           /\ sent >= limit
                => canStartBroadcast
                     = [canStart |-> FALSE, reason |-> ReasonLimitReached]

\* every check of the evaluator passes: an account is selected, a contact is
\* eligible, the template requirement is met, and the user is unlimited or
\* has sent < limit and sent + eligible <= limit
AllChecksPass ==
    /\ user # NoUser
    /\ ResultWithoutQuota.canStart
    /\ \/ user.is_unlimited
       \/ /\ user.messages_sent_this_month < PlanTable(user.subscription_plan)
          /\ user.messages_sent_this_month + EligibleCount
                <= PlanTable(user.subscription_plan)

\* C12: when every check passes the evaluator answers canStart = TRUE with
\* the empty reason; nothing else blocks.
C12_AllowedWhenChecksPass ==
    AllChecksPass => canStartBroadcast = [canStart |-> TRUE, reason |-> ""]

\* C12 witness: a user under quota who has sent messages before and whose
\* send takes the count exactly to the limit.
C12_Witness ==
    /\ AllChecksPass
    /\ ~user.is_unlimited
    /\ user.messages_sent_this_month > 0
    /\ user.messages_sent_this_month + EligibleCount
          = PlanTable(user.subscription_plan)
    /\ canStartBroadcast.canStart

\* C14: selectedAccount is empty or the id of a fetched account, every
\* fetched account being active; and without a selection that names a
\* fetched account no contact is eligible.
C14_SelectionIsActiveAccount ==
    /\ \A i \in 1..Len(accounts) : accounts[i].is_active
    /\ \/ selectedAccount = ""
       \/ \E i \in 1..Len(accounts) :
             accounts[i].id = selectedAccount /\ accounts[i].is_active
    /\ (selectedAccount = "" \/ FindAccount(selectedAccount) = NotFound)
          => getEligibleContacts = <<>>

\* C14 witness: an account is selected after a fetch and has eligible
\* contacts.
C14_Witness ==
    /\ fetchState = "done"
    /\ selectedAccount # ""
    /\ FindAccount(selectedAccount) # NotFound
    /\ EligibleCount > 0

(***************************************************************************)
(* Properties of the template selection.                                   *)
(***************************************************************************)
SetOf(list) == {list[i] : i \in 1..Len(list)}

\* C15: selectedTemplates holds no id twice; an id is in it exactly when
\* handleTemplateSelection was called for it an odd number of times; and
\* toggling any id twice gives back the same members.
C15_SelectionIsSet ==
    /\ \A i, j \in 1..Len(selectedTemplates) :
          i # j => selectedTemplates[i] # selectedTemplates[j]
    /\ \A id \in TemplateIds :
          Includes(selectedTemplates, id) <=> toggleCount[id] % 2 = 1
    /\ \A id \in TemplateIds :
          SetOf(ToggleSelection(ToggleSelection(selectedTemplates, id), id))
            = SetOf(selectedTemplates)

\* C15 witness: one id toggled twice and out again, another toggled an odd
\* number of times and in.
C15_Witness ==
    \E a, b \in TemplateIds :
        /\ a # b
        /\ toggleCount[a] = 2
        /\ ~Includes(selectedTemplates, a)
        /\ toggleCount[b] % 2 = 1
        /\ Includes(selectedTemplates, b)

(***************************************************************************)
(* Properties of the cached user.                                          *)
(***************************************************************************)
\* C13: a step changes the cached user only by adopting the user of a 2xx
\* answer to login, checkAuthState or refreshUser, or by clearing it at
\* logout; the steps of starting a broadcast (the dialog, startBroadcast,
\* its timeout) leave the user, messages_sent_this_month with it, as it is.
C13_UserOnlyFromBackend ==
    [][/\ user' # user
          => \/ /\ answer'.status = "ok"
                /\ answer'.op \in {"login", "checkAuthState", "refreshUser"}
                /\ user' \in AuthUsers
             \/ /\ user' = NoUser
                /\ token' = Null
                /\ answer' = NoAnswer
       /\ startVars' # startVars => user' = user]_vars

\* C13 witness: the timeout of a started broadcast has fired for a session
\* with a user and an eligible contact.
C13_Witness ==
    /\ alerts = <<AlertStarted>>
    /\ user \in AuthUsers
    /\ EligibleCount > 0

(***************************************************************************)
(* Properties of the alerts of the AuthScreen.                             *)
(***************************************************************************)
\* C17: when login or registration through the AuthScreen is answered
\* non-2xx with a detail, the alert of that step shows the detail verbatim.
C17_DetailShownVerbatim ==
    (/\ answer.op \in {"login", "register"}
     /\ answer.status = "rejected"
     /\ answer.detail # Undefined)
    => \E i \in 1..Len(alerts) : alerts[i].message = answer.detail

\* C18: when fetch throws during login or registration through the
\* AuthScreen, the alert of that step is the connectivity alert, which is
\* not the alert of a rejected login.
C18_ThrowShownAsConnectivity ==
    (answer.op \in {"login", "register"} /\ answer.status = "threw")
    => (alerts = <<AlertConnectivity>> /\ AlertConnectivity # AlertLoginFailed)

(***************************************************************************)
(* C20: no two operations in flight write the same state, so the list a    *)
(* screen ends with does not depend on the order of the answers.  The      *)
(* backend of the model only gains contacts, so an answer that is applied  *)
(* in the order the requests were served never shortens the list of the    *)
(* ContactsScreen: each 2xx answer of GET /api/contacts leaves a list at   *)
(* least as long as the one it replaces.                                   *)
(***************************************************************************)
C20_AnswersApplyInOrder ==
    [][(answer' = Ok("fetchContacts"))
          => Len(ContactsScreen_contacts') >= Len(ContactsScreen_contacts)]_vars


(***************************************************************************)
(* Properties of the forms.                                                *)
(***************************************************************************)
\* a text that is a number: an optional sign and digits, white space around
IsNumericText(t) ==
    LET s == Trim(t)
        body == IF s # <<>> /\ Head(s) \in {"-", "+"} THEN Tail(s) ELSE s
    IN  body # <<>> /\ \A i \in 1..Len(body) : IsDigit(body[i])

Blank(t) == Trim(t) = <<>>

ValidationAlerts ==
    {AlertFillAllFields, AlertEnterContactName, AlertEnterPhoneOrTelegram,
     AlertSelectMessenger, AlertEnterAccountName, AlertSelectPlanAndPrice,
     AlertEnterValidPrice}

\* C16: a form issues its request only for valid input (login: email and
\* password; register: email, username and password; contact: a name and a
\* phone or a Telegram username; template: name and content; account: a
\* messenger and a name; pricing: a plan and a numeric price that is not
\* negative), and a step that shows a validation alert leaves the screens
\* as they are.
C16_InvalidInputIssuesNoRequest ==
    [][/\ (AuthScreen_pc = "idle" /\ AuthScreen_pc' = "login")
             => (email # <<>> /\ password # <<>>)
       /\ (AuthScreen_pc = "idle" /\ AuthScreen_pc' = "register")
             => (email # <<>> /\ username # <<>> /\ password # <<>>)
       /\ (createContactPc = "idle" /\ createContactPc' = "posting")
             => (/\ ~Blank(contactName)
                 /\ (~Blank(contactPhone) \/ ~Blank(contactTelegram)))
       /\ (createTemplatePc = "idle" /\ createTemplatePc' = "posting")
             => (~Blank(templateName) /\ ~Blank(templateContent))
       /\ (saveAccountPc = "idle" /\ saveAccountPc' = "posting")
             => (selectedMessenger \in OfferedMessengers /\ ~Blank(accountName))
       /\ (Len(pricingPuts') > Len(pricingPuts))
             => (/\ selectedPlan \in PlanKeys
                 /\ IsNumericText(newPrice)
                 /\ ParseInt(newPrice).value >= 0)
       /\ (alerts' # NoAlert /\ alerts'[1] \in ValidationAlerts)
             => UNCHANGED <<authVars, authScreenVars, formVars>>]_vars

\* C19: for login, register, create contact, create template and save
\* account, a busy flag that is set is cleared again, whichever way the
\* request ends.
C19_BusyFlagsClear ==
    /\ AuthScreen_loading ~> ~AuthScreen_loading
    /\ ContactsScreen_saving ~> ~ContactsScreen_saving
    /\ TemplatesScreen_saving ~> ~TemplatesScreen_saving
    /\ AddAccountScreen_loading ~> ~AddAccountScreen_loading

\* C19 witness: the POST of a contact threw and the save button is enabled
\* again.
C19_Witness ==
    /\ answer.op = "createContact"
    /\ answer.status = "threw"
    /\ ~ContactsScreen_saving
    /\ createContactPc = "idle"

(***************************************************************************)
(* Properties of the persisted token.                                      *)
(***************************************************************************)
\* C21: the persisted auth_token is written only at login and logout: a
\* step that changes it is a login that succeeded (it is set to the token
\* of the answer) or a logout (it is removed); the startup auth check,
\* refreshUser, register and the screens leave it as it is.
C21_StoredTokenWrittenAtLoginLogout ==
    [][(storedToken' # storedToken)
          => \/ (answer' = Ok("login") /\ storedToken' = token' /\ token' # Null)
             \/ (token # Null /\ token' = Null /\ storedToken' = Null
                    /\ answer' = NoAnswer)]_vars

\* a step in which a screen or the provider sends a request with the
\* Authorization header built from the token of the session: the three GETs
\* of fetchData, GET /api/contacts, GET /api/templates, the two GETs of
\* fetchAdminData, the POSTs of the forms, the PUT of the pricing form and
\* GET /api/auth/me of refreshUser
AuthenticatedRequestIssued ==
    \/ (fetchState # "pending" /\ fetchState' = "pending")
    \/ \E origin \in FetchOrigins :
          /\ contactFetches[origin] = NotInFlight
          /\ contactFetches'[origin] # NotInFlight
    \/ \E origin \in FetchOrigins :
          /\ templateFetches[origin] = NotInFlight
          /\ templateFetches'[origin] # NotInFlight
    \/ \E origin \in AdminOrigins :
          /\ adminFetches[origin] = NotInFlight
          /\ adminFetches'[origin] # NotInFlight
    \/ (createContactPc = "idle" /\ createContactPc' = "posting")
    \/ (createTemplatePc = "idle" /\ createTemplatePc' = "posting")
    \/ (saveAccountPc = "idle" /\ saveAccountPc' = "posting")
    \/ Len(pricingPuts') > Len(pricingPuts)
    \/ refreshCalls' > refreshCalls

\* C22: a request to an authenticated endpoint carries the token of the
\* session, which is not null: no step sends such a request while the token
\* is null.
C22_NoRequestWithoutToken ==
    [][AuthenticatedRequestIssued => token # Null]_vars

\* the part of C22 about the list fetches: a GET of a list is sent only
\* with a token
ListFetchesNeedToken ==
    [][(\/ (fetchState # "pending" /\ fetchState' = "pending")
        \/ \E origin \in FetchOrigins :
              /\ contactFetches[origin] = NotInFlight
              /\ contactFetches'[origin] # NotInFlight
        \/ \E origin \in FetchOrigins :
              /\ templateFetches[origin] = NotInFlight
              /\ templateFetches'[origin] # NotInFlight)
          => token # Null]_vars

(***************************************************************************)
(* DashboardScreen: getSubscriptionInfo, the second copy of the table of   *)
(* plan limits.  The names are the source's Russian ones in English.       *)
(***************************************************************************)
\* getSubscriptionInfo with the limit of the basic plan of an older table
getSubscriptionInfo_OldBasic ==
    IF user = NoUser THEN [name |-> "Unknown", limit |-> 0, color |-> "#666"]
    ELSE IF user.is_unlimited
    THEN [name |-> "Unlimited", limit |-> -1, color |-> "#00FF88"]
    ELSE CASE user.subscription_plan = "free" ->
                [name |-> "Free", limit |-> 10, color |-> "#666"]
           [] user.subscription_plan = "basic" ->
                [name |-> "Basic", limit |-> 100, color |-> "#007AFF"]
           [] user.subscription_plan = "professional" ->
                [name |-> "Professional", limit |-> 5000, color |-> "#FF9500"]
           [] user.subscription_plan = "corporate" ->
                [name |-> "Corporate", limit |-> 20000, color |-> "#FF3B30"]
           [] OTHER -> [name |-> "Unknown", limit |-> 0, color |-> "#666"]

getSubscriptionInfo ==
    IF user = NoUser THEN [name |-> "Unknown", limit |-> 0, color |-> "#666"]
    ELSE IF user.is_unlimited
    THEN [name |-> "Unlimited", limit |-> -1, color |-> "#00FF88"]
    ELSE CASE user.subscription_plan = "free" ->
                [name |-> "Free", limit |-> 10, color |-> "#666"]
           [] user.subscription_plan = "basic" ->
                [name |-> "Basic", limit |-> 1000, color |-> "#007AFF"]
           [] user.subscription_plan = "professional" ->
                [name |-> "Professional", limit |-> 5000, color |-> "#FF9500"]
           [] user.subscription_plan = "corporate" ->
                [name |-> "Corporate", limit |-> 20000, color |-> "#FF3B30"]
           [] OTHER -> [name |-> "Unknown", limit |-> 0, color |-> "#666"]

\* C23: the two copies of the table of plan limits agree: for a user who is
\* not unlimited, and for no user, the limit of getSubscriptionInfo is the
\* limit of getMessageLimit, whatever the plan string; for an unlimited user
\* the dashboard reports -1 and the quota step of the BroadcastScreen is
\* skipped.
C23_LimitTablesAgree ==
    IF UserIsUnlimited
    THEN /\ getSubscriptionInfo.limit = -1
         /\ QuotaCheck(Len(getEligibleContacts)) = ""
    ELSE getSubscriptionInfo.limit = getMessageLimit

\* a user on the basic plan who is not unlimited is logged in and both
\* screens compute 1000
C23_Witness ==
    /\ user # NoUser
    /\ ~user.is_unlimited
    /\ user.subscription_plan = "basic"
    /\ getSubscriptionInfo.limit = 1000
    /\ getMessageLimit = 1000

(***************************************************************************)
(* Properties of the start of a broadcast.                                 *)
(***************************************************************************)
\* SpecStart with the timer: a timeout that startBroadcast armed fires
SpecStartFair ==
    InitApp /\ [][NextStart]_vars /\ WF_vars(startBroadcastTimeout)

\* loading of the BroadcastScreen becomes true in this step
StartTriggered == ~BroadcastScreen_loading /\ BroadcastScreen_loading'

\* the confirmation dialog is put up in this step
DialogRaised == ~confirmShown /\ confirmShown'

\* the start happens in a state in which canStartBroadcast allows it
StartOnlyWhenEligible ==
    [][StartTriggered => (confirmShown /\ canStartBroadcast.canStart)]_vars

C25_SessionConsistent ==
    /\ isAuthenticated <=> (token # Null)
    /\ isAuthenticated <=> (user # NoUser)
    /\ isAuthenticated => (storedToken = token)

\* C26: a login that fails, by a non-2xx answer, an unparsable body or a
\* throw, resolves false (the AuthScreen shows the alert of a failed login)
\* and leaves token, user, isAuthenticated and the persisted auth_token as
\* they were; a registration that succeeds resolves true (the AuthScreen
\* shows the alert of success) and leaves the four as they were too, so an
\* anonymous session stays anonymous.
C26_FailedLoginAndRegisterKeepSession ==
    [][/\ (answer'.op = "login" /\ answer'.status # "ok")
             => /\ UNCHANGED <<token, user, isAuthenticated, storedToken>>
                /\ alerts' = <<AlertLoginFailed>>
       /\ (answer' = Ok("register"))
             => /\ UNCHANGED <<token, user, isAuthenticated, storedToken>>
                /\ alerts' = <<AlertRegistered>>
                /\ (~isAuthenticated => ~isAuthenticated' /\ token' = Null)]_vars

\* a login was rejected while a token of an earlier run is stored, and the
\* token is still stored
C26_Witness ==
    /\ answer.op = "login"
    /\ answer.status = "rejected"
    /\ storedToken = SessionToken
    /\ ~isAuthenticated

\* the request of the startup check is answered or throws
checkAuthAnswers ==
    \/ \E u \in AuthUsers : checkAuthStateOk(u)
    \/ \E ans \in Failures("checkAuthState") : checkAuthStateFailed(ans)

\* SpecSession with the startup check running to its end: the mount effect
\* runs, and the request it may send is answered or throws
SpecSessionFair ==
    /\ InitApp /\ [][NextSession]_vars
    /\ WF_vars(checkAuthState) /\ WF_vars(checkAuthAnswers)

\* C27: the startup auth check finishes: loading of the AuthProvider
\* becomes false, with no stored token, with an accepted one, with a
\* rejected one and with a network error.  An accepted token authenticates
\* the session with that token; a rejected one is removed from storage and
\* the check does not authenticate; a network error changes neither the
\* session nor the stored token.  The token of the check is the one it read
\* from storage when it started, SessionToken.
C27_StartupCheckFinishes ==
    /\ <>(~AuthProvider_loading)
    /\ [][/\ (checkAuthPc = "start" /\ checkAuthPc' = "done")
               => /\ storedToken = Null
                  /\ ~AuthProvider_loading'
                  /\ UNCHANGED <<token, user, isAuthenticated, storedToken>>
          /\ (answer' = Ok("checkAuthState"))
               => /\ isAuthenticated' /\ user' # NoUser
                  /\ token' = SessionToken /\ token' # Null
                  /\ UNCHANGED storedToken
                  /\ ~AuthProvider_loading'
          /\ (answer'.op = "checkAuthState"
                 /\ answer'.status \in {"rejected", "unparsable"})
               => /\ storedToken' = Null
                  /\ UNCHANGED <<token, user, isAuthenticated>>
                  /\ ~AuthProvider_loading'
          /\ (answer'.op = "checkAuthState" /\ answer'.status = "threw")
               => /\ UNCHANGED <<token, user, isAuthenticated, storedToken>>
                  /\ ~AuthProvider_loading']_vars

\* the check met a network error: it is over, the session is anonymous and
\* the token is still stored
C27_Witness ==
    /\ answer.op = "checkAuthState"
    /\ answer.status = "threw"
    /\ ~AuthProvider_loading
    /\ ~isAuthenticated
    /\ storedToken = SessionToken

(***************************************************************************)
(* Properties of the list screens.                                         *)
(***************************************************************************)
\* SpecContacts with the mount effect running and every GET /api/contacts
\* answered or throwing
SpecContactsFair ==
    /\ InitContacts /\ [][NextContacts]_vars
    /\ WF_vars(ContactsScreen_mount)
    /\ \A origin \in FetchOrigins : WF_vars(fetchContactsAnswers(origin))

\* C28: the loading flag a list screen starts with becomes false after the
\* screen has mounted, whether the fetch of the mount effect succeeds, is
\* answered non-2xx, throws, or is not sent for want of a token.
C28_InitialLoadingEnds ==
    /\ ContactsScreen_mounted ~> ~ContactsScreen_loading
    /\ TemplatesScreen_mounted ~> ~TemplatesScreen_loading

\* the paths of C28 on which the request is sent
LoadingEndsWhenRequested ==
    (ContactsScreen_mounted /\ contactFetches["mount"] # NotInFlight)
        ~> ~ContactsScreen_loading

(***************************************************************************)
(* Properties of the ScheduledScreen.                                      *)
(***************************************************************************)
\* the first part of C29: a step of cancelBroadcast gives the item of the
\* dialog the status cancelled and keeps every other item and field
CancelChangesOneStatus ==
    [][(alerts' = <<AlertBroadcastCancelled>>)
          => /\ DOMAIN scheduledBroadcasts' = DOMAIN scheduledBroadcasts
             /\ \A i \in DOMAIN scheduledBroadcasts :
                   IF scheduledBroadcasts[i].id = cancelAsked
                   THEN scheduledBroadcasts'[i] =
                          [scheduledBroadcasts[i] EXCEPT !.status = "cancelled"]
                   ELSE scheduledBroadcasts'[i] = scheduledBroadcasts[i]]_vars

\* C29: cancelBroadcast(id) sets the status of the broadcast with that id
\* to cancelled and changes nothing else, and cancelled is terminal: a
\* broadcast that is cancelled is cancelled after every step of the screen.
C29_CancelledIsTerminal ==
    [][/\ (alerts' = <<AlertBroadcastCancelled>>)
             => /\ DOMAIN scheduledBroadcasts' = DOMAIN scheduledBroadcasts
                /\ \A i \in DOMAIN scheduledBroadcasts :
                      IF scheduledBroadcasts[i].id = cancelAsked
                      THEN scheduledBroadcasts'[i] =
                             [scheduledBroadcasts[i]
                                 EXCEPT !.status = "cancelled"]
                      ELSE scheduledBroadcasts'[i] = scheduledBroadcasts[i]
       /\ \A i \in DOMAIN scheduledBroadcasts :
             scheduledBroadcasts[i].status = "cancelled"
                => /\ i \in DOMAIN scheduledBroadcasts'
                   /\ scheduledBroadcasts'[i].id = scheduledBroadcasts[i].id
                   /\ scheduledBroadcasts'[i].status = "cancelled"]_vars

(***************************************************************************)
(* Properties of the AdminScreen.                                          *)
(***************************************************************************)
\* a step in which the AdminScreen sends the GETs of fetchAdminData or the
\* PUT of the pricing form
AdminRequestIssued ==
    \/ \E origin \in AdminOrigins :
          /\ adminFetches[origin] = NotInFlight
          /\ adminFetches'[origin] # NotInFlight
    \/ Len(pricingPuts') > Len(pricingPuts)

\* the part of C30 about the requests
NoAdminRequestWithoutRole ==
    [][(UserRole(user) # "admin") => ~AdminRequestIssued]_vars

\* C30: the admin operations are gated on the role.  In a step taken while
\* the user is absent or is no administrator the AdminScreen sends no
\* request, the pricing form is not touched by the user, and the lists of
\* users and plans, if they are empty, stay empty.
C30_AdminGatedOnRole ==
    [][(UserRole(user) # "admin")
          => /\ ~AdminRequestIssued
             /\ (answer' = NoAnswer) => UNCHANGED pricingFormVars
             /\ (AdminScreen_users = <<>> /\ subscriptionPlans = NoPlans)
                   => (AdminScreen_users' = <<>> /\ subscriptionPlans' = NoPlans)]_vars

====
